---- MODULE Spec2Model ----
(***************************************************************************)
(* A model of optgen (src/main.go): the generator that reads the fields of *)
(* a requested struct, interprets their `optgen` and `debugmap` tags and   *)
(* emits ToOption, DebugMap, FlatDebugMap and the With/Set option          *)
(* functions, together with the run-time meaning of the code it emits.     *)
(*                                                                         *)
(* Strings whose characters the code inspects (identifiers, sensitive      *)
(* substrings, flatten depths) are sequences of one-character strings.     *)
(* Tag values are given already split at "," and ":" (strings.Split,       *)
(* strings.SplitN), without surrounding blanks.                            *)
(***************************************************************************)
EXTENDS Integers, Sequences, FiniteSets, TLC

\* ------------------------------------------------------------------------
\* Characters and strings (unicode.ToLower/ToUpper, strings.ToLower,
\* strings.Contains)
\* ------------------------------------------------------------------------

UpperChars == <<"A","B","C","D","E","F","G","H","I","J","K","L","M",
                "N","O","P","Q","R","S","T","U","V","W","X","Y","Z">>

LowerChars == <<"a","b","c","d","e","f","g","h","i","j","k","l","m",
                "n","o","p","q","r","s","t","u","v","w","x","y","z">>

IsUpperCh(c) == \E i \in 1..Len(UpperChars) : UpperChars[i] = c

IsLowerCh(c) == \E i \in 1..Len(LowerChars) : LowerChars[i] = c

ToLowerCh(c) ==
    IF IsUpperCh(c)
    THEN LowerChars[CHOOSE i \in 1..Len(UpperChars) : UpperChars[i] = c]
    ELSE c

ToUpperCh(c) ==
    IF IsLowerCh(c)
    THEN UpperChars[CHOOSE i \in 1..Len(LowerChars) : LowerChars[i] = c]
    ELSE c

\* strings.ToLower
ToLower(s) == [i \in 1..Len(s) |-> ToLowerCh(s[i])]

\* strings.Contains(s, substr)
Contains(s, substr) ==
    \E i \in 0..(Len(s) - Len(substr)) :
        \A j \in 1..Len(substr) : s[i + j] = substr[j]

\* ast.Ident.IsExported: the first character is an upper-case letter
IsExported(name) == Len(name) > 0 /\ IsUpperCh(name[1])

unexport(s) == IF Len(s) = 0 THEN s ELSE <<ToLowerCh(s[1])>> \o Tail(s)

toTitle(s) == IF Len(s) = 0 THEN s ELSE <<ToUpperCh(s[1])>> \o Tail(s)

\* a formatFunctionName that never lowers the first character
formatFunctionNameExported(prefix, fieldName, structPrefix, makePublic) ==
    prefix \o structPrefix \o toTitle(fieldName)

\* formatFunctionName(prefix, fieldName, structPrefix, makePublic)
formatFunctionName(prefix, fieldName, structPrefix, makePublic) ==
    LET name == prefix \o structPrefix \o toTitle(fieldName)
    IN  IF makePublic THEN name ELSE unexport(name)

\* strconv.Atoi on a character sequence: an optional sign, then one or more
\* decimal digits; anything else is an error.
Digits == <<"0","1","2","3","4","5","6","7","8","9">>

IsDigit(c) == \E i \in 1..Len(Digits) : Digits[i] = c

DigitVal(c) == (CHOOSE i \in 1..Len(Digits) : Digits[i] = c) - 1

RECURSIVE DigitsVal(_)
DigitsVal(s) ==
    IF Len(s) = 0 THEN 0
    ELSE 10 * DigitsVal(SubSeq(s, 1, Len(s) - 1)) + DigitVal(s[Len(s)])

Atoi(s) ==
    LET signed == Len(s) > 0 /\ s[1] \in {"+", "-"}
        body   == IF signed THEN Tail(s) ELSE s
    IN  IF Len(body) = 0 \/ \E i \in 1..Len(body) : ~IsDigit(body[i])
        THEN [err |-> TRUE, n |-> 0]
        ELSE [err |-> FALSE,
              n   |-> IF signed /\ s[1] = "-" THEN 0 - DigitsVal(body)
                      ELSE DigitsVal(body)]

\* ------------------------------------------------------------------------
\* Type expressions (go/ast) of field declarations
\* ------------------------------------------------------------------------

sString == <<"s","t","r","i","n","g">>
sInt    == <<"i","n","t">>
sBool   == <<"b","o","o","l">>
sAny    == <<"a","n","y">>
sByte   == <<"b","y","t","e">>
sTime   == <<"t","i","m","e">>
sTimeT  == <<"T","i","m","e">>
sBox    == <<"B","o","x">>

\* the identifiers getTypeCategory lists as primitive
PrimitiveNames ==
    { sString, sInt, sBool,
      <<"i","n","t","8">>, <<"i","n","t","1","6">>, <<"i","n","t","3","2">>,
      <<"i","n","t","6","4">>, <<"u","i","n","t">>, <<"u","i","n","t","8">>,
      <<"u","i","n","t","1","6">>, <<"u","i","n","t","3","2">>,
      <<"u","i","n","t","6","4">>, <<"f","l","o","a","t","3","2">>,
      <<"f","l","o","a","t","6","4">> }

\* the identifiers isStructTypeAST lists as built-in
BuiltinNames ==
    PrimitiveNames \cup
    { <<"u","i","n","t","p","t","r">>,
      <<"c","o","m","p","l","e","x","6","4">>,
      <<"c","o","m","p","l","e","x","1","2","8">>,
      sByte, <<"r","u","n","e">>, <<"e","r","r","o","r">>, sAny }

NoType == [kind |-> "None", name |-> <<>>, pkg |-> <<>>, sized |-> FALSE,
           elt |-> <<>>, val |-> <<>>]

TIdent(n) == [NoType EXCEPT !.kind = "Ident", !.name = n]

TStar(t) == [NoType EXCEPT !.kind = "Star", !.elt = <<t>>]

TSelector(p, n) == [NoType EXCEPT !.kind = "Selector", !.pkg = p, !.name = n]

TArray(t, sized) == [NoType EXCEPT !.kind = "Array", !.elt = <<t>>, !.sized = sized]

TMap(k, v) == [NoType EXCEPT !.kind = "Map", !.elt = <<k>>, !.val = <<v>>]

TIndex(base, param) == [NoType EXCEPT !.kind = "Index", !.elt = <<base>>, !.val = <<param>>]

\* *ast.StarExpr is unwrapped once (isStructTypeAST, getStructTypeName)
Unstar(t) == IF t.kind = "Star" THEN t.elt[1] ELSE t

getTypeCategory(t) ==
    CASE t.kind = "Ident" ->
            IF t.name \in PrimitiveNames THEN "primitive" ELSE "complex"
      [] t.kind = "Star"  -> "pointer"
      [] t.kind = "Array" -> IF ~t.sized THEN "slice" ELSE "array"
      [] t.kind = "Map"   -> "map"
      [] OTHER            -> "complex"

\* ImportResolver.Resolve: the import table of the scanned file maps "time"
\* to "time"; an unknown package name falls back to itself.
Resolve(pkgName) == pkgName

\* isStructTypeAST returns (isStruct, packagePath)
isStructTypeAST(t) ==
    LET u == Unstar(t)
    IN  CASE u.kind = "Ident" ->
                IF u.name \in BuiltinNames
                THEN [isStruct |-> FALSE, pkgPath |-> <<>>]
                ELSE [isStruct |-> TRUE, pkgPath |-> <<>>]
          [] u.kind = "Selector" ->
                [isStruct |-> TRUE, pkgPath |-> Resolve(u.pkg)]
          [] OTHER -> [isStruct |-> FALSE, pkgPath |-> <<>>]

getStructTypeName(t) ==
    LET u == Unstar(t)
    IN  IF u.kind \in {"Ident", "Selector"} THEN u.name ELSE <<>>

isSliceOrArrayAST(t) == t.kind = "Array"

isMapAST(t) == t.kind = "Map"

isStringType(t) == t.kind = "Ident" /\ t.name = sString

getSliceElementType(t) == IF t.kind = "Array" THEN t.elt[1] ELSE NoType

\* ------------------------------------------------------------------------
\* Struct tags
\* ------------------------------------------------------------------------

\* one comma-separated part of an optgen tag value: `key` or `key:value`
Flag(k) == [key |-> k, colon |-> FALSE, value |-> <<>>]

KV(k, v) == [key |-> k, colon |-> TRUE, value |-> v]

NoTag == [present |-> FALSE, parts |-> <<>>, value |-> ""]

OptgenTag(parts) == [present |-> TRUE, parts |-> parts, value |-> ""]

DebugTag(v) == [present |-> TRUE, parts |-> <<>>, value |-> v]

\* a field declaration: its names (none for an embedded field), its type and
\* the values of its two tags
Field(names, type, optgen, debugmap) ==
    [names |-> names, type |-> type, optgen |-> optgen, debugmap |-> debugmap]

\* parseStructTag(field, tagKey): the value of the tag, or an error when the
\* field has no tag with that key
parseStructTag(field, tagKey) ==
    LET tag == IF tagKey = "optgen" THEN field.optgen ELSE field.debugmap
    IN  IF ~tag.present THEN [err |-> TRUE, tag |-> tag]
        ELSE [err |-> FALSE, tag |-> tag]

\* a fatal diagnostic (fmt.Printf followed by os.Exit(1))
NoDiag == [msg |-> "none", field |-> <<>>, type |-> <<>>]

Diag(msg, field, type) == [msg |-> msg, field |-> field, type |-> type]

DefaultInfo(action) ==
    [Action |-> action, Visibility |-> "default", Recursive |-> FALSE,
     Flatten |-> FALSE, FlattenDepth |-> 0, FlattenPrefix |-> <<>>]

\* a loop over parts[1:] that accepts every part
ParseOptionsAny(parts, i, info, fname) == [info |-> info, fatal |-> NoDiag]

\* the loop of parseOptgenTag over parts[1:]; stops at the first fatal part
RECURSIVE ParseOptions(_, _, _, _)
ParseOptions(parts, i, info, fname) ==
    IF i > Len(parts) THEN [info |-> info, fatal |-> NoDiag]
    ELSE
      LET part == parts[i] IN
      IF part.colon
      THEN CASE part.key = "flatten" ->
                  LET d == Atoi(part.value) IN
                  IF d.err \/ d.n < 0
                  THEN [info |-> info,
                        fatal |-> Diag("invalid flatten depth", fname, <<>>)]
                  ELSE ParseOptions(parts, i + 1,
                         [info EXCEPT !.Flatten = TRUE, !.FlattenDepth = d.n],
                         fname)
             [] part.key = "prefix" ->
                  ParseOptions(parts, i + 1,
                         [info EXCEPT !.FlattenPrefix = part.value], fname)
             [] OTHER ->
                  [info |-> info,
                   fatal |-> Diag("unknown optgen option", fname, <<>>)]
      ELSE CASE part.key \in {"public", "private"} ->
                  ParseOptions(parts, i + 1,
                         [info EXCEPT !.Visibility = part.key], fname)
             [] part.key = "recursive" ->
                  ParseOptions(parts, i + 1,
                         [info EXCEPT !.Recursive = TRUE], fname)
             [] part.key = "flatten" ->
                  ParseOptions(parts, i + 1,
                         [info EXCEPT !.Flatten = TRUE, !.FlattenDepth = 0],
                         fname)
             [] OTHER ->
                  [info |-> info,
                   fatal |-> Diag("unknown optgen option", fname, <<>>)]

\* parseOptgenTag for a field that has an optgen tag with these parts
ParseTagParts(parts, fname) ==
    IF parts[1].colon \/ parts[1].key \notin {"generate", "skip", "readonly"}
    THEN [info |-> DefaultInfo(parts[1].key), hasTag |-> TRUE,
          fatal |-> Diag("unknown optgen action", fname, <<>>)]
    ELSE [hasTag |-> TRUE] @@
         ParseOptions(parts, 2, DefaultInfo(parts[1].key), fname)

\* parseOptgenTag(field): the tag info, whether a tag was present, and the
\* fatal diagnostic if the tag is rejected
parseOptgenTag(field) ==
    IF Len(field.names) = 0
    THEN [info |-> DefaultInfo("skip"), hasTag |-> FALSE, fatal |-> NoDiag]
    ELSE IF parseStructTag(field, "optgen").err
    THEN [info |-> DefaultInfo(IF IsExported(field.names[1]) THEN "generate"
                               ELSE "skip"),
          hasTag |-> FALSE, fatal |-> NoDiag]
    ELSE ParseTagParts(field.optgen.parts, field.names[1])

\* ------------------------------------------------------------------------
\* The scanned source file and the generator's configuration
\* ------------------------------------------------------------------------

\* a type declaration of the file: its name and, for a struct, its fields
TypeSpec(name, isStruct, fields) ==
    [name |-> name, isStruct |-> isStruct, fields |-> fields]

\* the (field, name) pairs the generator's nested loops visit, in order:
\* `for _, field := range st.Fields.List { for _, name := range field.Names`
RECURSIVE NamePairs(_)
NamePairs(fields) ==
    IF Len(fields) = 0 THEN <<>>
    ELSE [j \in 1..Len(fields[1].names) |->
             [field |-> fields[1], name |-> fields[1].names[j]]]
         \o NamePairs(Tail(fields))

\* findStructDefInFile(file, typeName): the first struct declaration of that
\* name, or none
findStructDefInFile(file, typeName) ==
    LET hits == {i \in 1..Len(file) :
                    file[i].name = typeName /\ file[i].isStruct}
    IN  IF hits = {} THEN [found |-> FALSE, fields |-> <<>>]
        ELSE [found |-> TRUE,
              fields |-> file[CHOOSE i \in hits : \A j \in hits : i <= j].fields]

sOption == <<"O","p","t","i","o","n">>
sOptions == <<"O","p","t","i","o","n","s">>
sWith == <<"W","i","t","h">>
sSet == <<"S","e","t">>
sDot == <<".">>

\* the Config built by generateForFileAST for one struct
MakeConfig(structName, prefixFlag, flattenFlag) ==
    [ReceiverId     |-> ToLower(<<structName[1]>>),
     OptTypeName    |-> structName \o sOption,
     TargetTypeName |-> toTitle(structName),
     StructName     |-> structName,
     UsePrefix      |-> prefixFlag,
     UseFlatten     |-> flattenFlag]

\* Config.prefix()
ConfigPrefix(c) == IF c.UsePrefix THEN c.StructName ELSE <<>>

\* ------------------------------------------------------------------------
\* Generated code.  A declaration of the output file and a statement of a
\* generated body; `root` and `variant` record which field and which writer
\* produced a setter.
\* ------------------------------------------------------------------------

Stmt(op, target) == [op |-> op, target |-> target]

Decl(kind, name, c, body) ==
    [kind |-> kind, name |-> name, struct |-> c.StructName, body |-> body,
     variant |-> "", root |-> <<>>, param |-> NoType]

Setter(name, c, variant, root, op, target, param) ==
    [kind |-> "Setter", name |-> name, struct |-> c.StructName,
     body |-> <<Stmt(op, target)>>, variant |-> variant, root |-> root,
     param |-> param]

Ok(decls) == [fatal |-> NoDiag, decls |-> decls]

Fatal(d) == [fatal |-> d, decls |-> <<>>]

\* ---- ToOption ----------------------------------------------------------

\* one writer after another: the first fatal diagnostic ends the run
Then(r, rest) ==
    IF r.fatal # NoDiag THEN Fatal(r.fatal)
    ELSE IF rest.fatal # NoDiag THEN Fatal(rest.fatal)
    ELSE Ok(r.decls \o rest.decls)

\* the statement of ToOption for one exported name with its parsed tag
ToOptionField(name, tagInfo) ==
    IF tagInfo.fatal # NoDiag THEN Fatal(tagInfo.fatal)
    ELSE IF tagInfo.info.Action = "skip" THEN Ok(<<>>)
    ELSE Ok(<<Stmt("copy", name)>>)

RECURSIVE ToOptionBody(_, _)
ToOptionBody(pairs, i) ==
    IF i > Len(pairs) THEN Ok(<<>>)
    ELSE IF ~IsExported(pairs[i].name) THEN ToOptionBody(pairs, i + 1)
    ELSE Then(ToOptionField(pairs[i].name, parseOptgenTag(pairs[i].field)),
              ToOptionBody(pairs, i + 1))

\* writeToOptionAST(buf, st, c)
ToOptionDecl(b, c) ==
    [fatal |-> b.fatal,
     decls |-> <<Decl("ToOption", <<"T","o">> \o sOption, c, b.decls)>>]

writeToOptionAST(st, c) == ToOptionDecl(ToOptionBody(NamePairs(st), 1), c)

\* ---- DebugMap ----------------------------------------------------------

\* a check of the name that never exits
validateNotSensitiveNever(fieldName, sensitiveNameMatches) == FALSE

\* validateNotSensitive(fieldName, typeName, sensitiveNameMatches): TRUE when
\* it exits
validateNotSensitive(fieldName, sensitiveNameMatches) ==
    \E k \in 1..Len(sensitiveNameMatches) :
        Contains(ToLower(fieldName), sensitiveNameMatches[k])

\* debug code that stores every field as it is
DebugCodeForDirect(category, s, fieldType, fieldName, useFormat) ==
    Stmt("dbg_direct", fieldName)

\* debug code that takes the nested map for visible-format and the dot-merged
\* keys for visible
DebugCodeForSwapped(category, s, fieldType, fieldName, useFormat) ==
    IF s.isStruct /\ s.pkgPath = <<>>
    THEN IF useFormat THEN Stmt("dbg_struct", fieldName)
         ELSE Stmt("dbg_struct_format", fieldName)
    ELSE IF s.isStruct THEN Stmt("dbg_sprintf", fieldName)
    ELSE DebugCodeForDirect(category, s, fieldType, fieldName, useFormat)

\* generateDebugCodeByCategory(grp, fieldType, ..., fieldName, ..., useFormat)
DebugCodeFor(category, s, fieldType, fieldName, useFormat) ==
    IF s.isStruct
    THEN IF s.pkgPath = <<>>
         THEN IF useFormat THEN Stmt("dbg_struct_format", fieldName)
              ELSE Stmt("dbg_struct", fieldName)
         ELSE Stmt("dbg_sprintf", fieldName)
    ELSE CASE category = "primitive" ->
                IF isStringType(fieldType) THEN Stmt("dbg_string", fieldName)
                ELSE Stmt("dbg_direct", fieldName)
           [] category = "pointer" -> Stmt("dbg_pointer", fieldName)
           [] category = "slice" ->
                IF useFormat
                THEN IF isStringType(getSliceElementType(fieldType))
                     THEN Stmt("dbg_slice_format_str", fieldName)
                     ELSE Stmt("dbg_slice_format", fieldName)
                ELSE Stmt("dbg_slice_size", fieldName)
           [] category = "map" ->
                IF useFormat THEN Stmt("dbg_map_format", fieldName)
                ELSE Stmt("dbg_map_size", fieldName)
           [] OTHER -> Stmt("dbg_direct", fieldName)

generateDebugCodeByCategory(fieldType, fieldName, useFormat) ==
    DebugCodeFor(getTypeCategory(fieldType), isStructTypeAST(fieldType),
                 fieldType, fieldName, useFormat)

\* a sensitive field rendered like a visible one
generateDebugCodeForSensitiveShown(fieldName, fieldType, category) ==
    IF isStringType(fieldType) THEN Stmt("dbg_string", fieldName)
    ELSE Stmt("dbg_direct", fieldName)

\* generateDebugCodeForSensitive(grp, receiverId, fieldName, fieldType, category, mapId)
generateDebugCodeForSensitive(fieldName, fieldType, category) ==
    IF category = "pointer" THEN Stmt("sens_pointer", fieldName)
    ELSE IF isStringType(fieldType) THEN Stmt("sens_string", fieldName)
    ELSE Stmt("sens_other", fieldName)

\* processDebugMapField(grp, field, fieldName, c, sensitiveNameMatches, ...);
\* `sensitive` is whether validateNotSensitive exits for the field name
DebugMapFieldFor(tagValue, sensitive, field, fieldName, c) ==
    CASE tagValue \in {"visible", "visible-format"} ->
            IF sensitive
            THEN Fatal(Diag("must be marked as sensitive", fieldName,
                            c.TargetTypeName))
            ELSE Ok(<<generateDebugCodeByCategory(field.type, fieldName,
                                                  tagValue = "visible-format")>>)
      [] tagValue = "hidden" -> Ok(<<>>)
      [] tagValue = "sensitive" ->
            Ok(<<generateDebugCodeForSensitive(fieldName, field.type,
                                               getTypeCategory(field.type))>>)
      [] OTHER ->
            Fatal(Diag("unknown value for debugmap tag", fieldName,
                       c.TargetTypeName))

\* a field without debugmap tag left out of the map
processDebugMapFieldOptional(field, fieldName, c, sensitiveNameMatches) ==
    IF parseStructTag(field, "debugmap").err THEN Ok(<<>>)
    ELSE DebugMapFieldFor(field.debugmap.value,
                          validateNotSensitive(fieldName, sensitiveNameMatches),
                          field, fieldName, c)

\* a hidden field handled like a visible one
processDebugMapFieldShowsHidden(field, fieldName, c, sensitiveNameMatches) ==
    IF parseStructTag(field, "debugmap").err
    THEN Fatal(Diag("missing debugmap tag", fieldName, c.TargetTypeName))
    ELSE DebugMapFieldFor(IF field.debugmap.value = "hidden" THEN "visible"
                          ELSE field.debugmap.value,
                          validateNotSensitive(fieldName, sensitiveNameMatches),
                          field, fieldName, c)

processDebugMapField(field, fieldName, c, sensitiveNameMatches) ==
    IF parseStructTag(field, "debugmap").err
    THEN Fatal(Diag("missing debugmap tag", fieldName, c.TargetTypeName))
    ELSE DebugMapFieldFor(field.debugmap.value,
                          validateNotSensitive(fieldName, sensitiveNameMatches),
                          field, fieldName, c)

RECURSIVE DebugMapBody(_, _, _, _)
DebugMapBody(pairs, i, c, sensitiveNameMatches) ==
    IF i > Len(pairs) THEN Ok(<<>>)
    ELSE IF ~IsExported(pairs[i].name)
    THEN DebugMapBody(pairs, i + 1, c, sensitiveNameMatches)
    ELSE Then(processDebugMapField(pairs[i].field, pairs[i].name, c,
                                   sensitiveNameMatches),
              DebugMapBody(pairs, i + 1, c, sensitiveNameMatches))

sDebugMap == <<"D","e","b","u","g","M","a","p">>

\* writeDebugMapAST(buf, st, c, sensitiveNameMatches, resolver), which ends
\* with writeFlatDebugMapAST(buf, c)
DebugMapDecls(b, c) ==
    [fatal |-> b.fatal,
     decls |-> << Decl("DebugMap", sDebugMap, c, b.decls),
                  Decl("FlatDebugMap", <<"F","l","a","t">> \o sDebugMap, c,
                       <<Stmt("flatten", sDebugMap)>>) >>]

writeDebugMapAST(st, c, sensitiveNameMatches) ==
    DebugMapDecls(DebugMapBody(NamePairs(st), 1, c, sensitiveNameMatches), c)

\* ---- With* / Set* option functions --------------------------------------

\* writeSetterOptAST(buf, funcPrefix, fieldName, fieldType, c, makePublic)
writeSetterOptAST(funcPrefix, variant, fieldName, fieldType, c, makePublic) ==
    Setter(formatFunctionName(funcPrefix, fieldName, ConfigPrefix(c), makePublic),
           c, variant, fieldName, "assign", toTitle(fieldName), fieldType)

\* writeSliceWithOptAST: With<Field>(elem) appends to the field
writeSliceWithOptAST(fieldName, fieldType, c, makePublic) ==
    Setter(formatFunctionName(sWith, fieldName, ConfigPrefix(c), makePublic),
           c, "append", fieldName, "append", toTitle(fieldName),
           getSliceElementType(fieldType))

\* writeMapWithOptAST: With<Field>(key, value) stores one entry
writeMapWithOptAST(fieldName, fieldType, c, makePublic) ==
    Setter(formatFunctionName(sWith, fieldName, ConfigPrefix(c), makePublic),
           c, "addentry", fieldName, "mapset", toTitle(fieldName), fieldType)

\* writeStructRecursiveSetterAST: With<Field>Options(opts ...<Type>Option),
\* whose body is recv.<Field> = *New<Type>WithOptions(opts...); the op of the
\* statement is the kind of the constructor called, the parameter the type
\* whose option functions are taken
writeStructRecursiveSetterAST(fieldName, fieldType, c, makePublic) ==
    IF getStructTypeName(fieldType) = <<>> THEN <<>>
    ELSE << Setter(formatFunctionName(sWith, fieldName \o sOptions,
                                      ConfigPrefix(c), makePublic),
                   c, "options", fieldName, "NewWithOptions", toTitle(fieldName),
                   TIdent(getStructTypeName(fieldType))) >>

\* a struct type of the package being generated (isStruct && pkgPath == "")
IsLocalStruct(s) == s.isStruct /\ s.pkgPath = <<>>

\* writeFlattenedOptFuncsAST(buf, parentFieldName, fieldTypeAST, file, c,
\*     resolver, prefix, currentDepth, maxDepth, makePublic); FlattenFields is
\* its loop over the nested struct's fields and FlattenField the loop body.
\* `root` is the field of the requested struct the traversal started from.
RECURSIVE writeFlattenedOptFuncsAST(_, _, _, _, _, _, _, _, _)
RECURSIVE FlattenStruct(_, _, _, _, _, _, _, _, _)
RECURSIVE FlattenFields(_, _, _, _, _, _, _, _, _, _)
RECURSIVE FlattenField(_, _, _, _, _, _, _, _, _, _)

\* a traversal whose depth check lets one level too many through
writeFlattenedOptFuncsASTOneDeeper(root, parentFieldName, fieldType, file, c, prefix, currentDepth, maxDepth, makePublic) ==
    IF maxDepth > 0 /\ currentDepth > maxDepth + 1 THEN Ok(<<>>)
    ELSE IF getStructTypeName(fieldType) = <<>> THEN Ok(<<>>)
    ELSE FlattenStruct(findStructDefInFile(file, getStructTypeName(fieldType)),
                       root, parentFieldName, file, c, prefix, currentDepth,
                       maxDepth, makePublic)

FlattenStruct(nestedStruct, root, parentFieldName, file, c, prefix, currentDepth, maxDepth, makePublic) ==
    IF ~nestedStruct.found THEN Ok(<<>>)
    ELSE FlattenFields(NamePairs(nestedStruct.fields), 1, root,
                       parentFieldName, file, c, prefix, currentDepth,
                       maxDepth, makePublic)

writeFlattenedOptFuncsAST(root, parentFieldName, fieldType, file, c, prefix, currentDepth, maxDepth, makePublic) ==
    IF maxDepth > 0 /\ currentDepth > maxDepth THEN Ok(<<>>)
    ELSE IF getStructTypeName(fieldType) = <<>> THEN Ok(<<>>)
    ELSE FlattenStruct(findStructDefInFile(file, getStructTypeName(fieldType)),
                       root, parentFieldName, file, c, prefix, currentDepth,
                       maxDepth, makePublic)

FlattenField(p, nestedTagInfo, root, parentFieldName, file, c, prefix, currentDepth, maxDepth, makePublic) ==
    IF nestedTagInfo.fatal # NoDiag THEN Fatal(nestedTagInfo.fatal)
    ELSE IF nestedTagInfo.info.Action \in {"skip", "readonly"} THEN Ok(<<>>)
    ELSE Then(Ok(<< Setter(formatFunctionName(sWith,
                               toTitle(prefix) \o toTitle(p.name),
                               ConfigPrefix(c), makePublic),
                           c, "flattened", root, "assign",
                           toTitle(parentFieldName) \o sDot \o toTitle(p.name),
                           p.field.type) >>),
              IF IsLocalStruct(isStructTypeAST(p.field.type))
              THEN writeFlattenedOptFuncsAST(root,
                       parentFieldName \o sDot \o p.name, p.field.type,
                       file, c, toTitle(prefix) \o toTitle(p.name),
                       currentDepth + 1, maxDepth, makePublic)
              ELSE Ok(<<>>))

FlattenFields(pairs, i, root, parentFieldName, file, c, prefix, currentDepth, maxDepth, makePublic) ==
    IF i > Len(pairs) THEN Ok(<<>>)
    ELSE IF ~IsExported(pairs[i].name)
    THEN FlattenFields(pairs, i + 1, root, parentFieldName, file, c, prefix,
                       currentDepth, maxDepth, makePublic)
    ELSE Then(FlattenField(pairs[i], parseOptgenTag(pairs[i].field), root,
                           parentFieldName, file, c, prefix, currentDepth,
                           maxDepth, makePublic),
              FlattenFields(pairs, i + 1, root, parentFieldName, file, c,
                            prefix, currentDepth, maxDepth, makePublic))

\* makePublic as writeAllWithOptFuncsAST decides it from the tag's visibility
MakePublic(info, isExported) ==
    CASE info.Visibility = "public"  -> TRUE
      [] info.Visibility = "private" -> FALSE
      [] OTHER -> isExported

\* the setters of a same-package struct field: direct, recursive, flattened
StructFieldSetters(info, makePublic, field, fieldName, file, c) ==
    Then(Ok(<<writeSetterOptAST(sWith, "direct", fieldName, field.type, c,
                                makePublic)>>
            \o (IF info.Recursive
                THEN writeStructRecursiveSetterAST(fieldName, field.type, c,
                                                   makePublic)
                ELSE <<>>)),
         IF info.Flatten \/ c.UseFlatten
         THEN writeFlattenedOptFuncsAST(fieldName, fieldName, field.type,
                  file, c,
                  IF info.FlattenPrefix = <<>> THEN fieldName
                  ELSE info.FlattenPrefix,
                  1, info.FlattenDepth, makePublic)
         ELSE Ok(<<>>))

\* the setters of a field that is generated, by the kind of its type
FieldSetters(info, makePublic, field, fieldName, file, c) ==
    IF IsLocalStruct(isStructTypeAST(field.type))
    THEN StructFieldSetters(info, makePublic, field, fieldName, file, c)
    ELSE Ok((IF isSliceOrArrayAST(field.type)
             THEN << writeSliceWithOptAST(fieldName, field.type, c, makePublic) >>
             ELSE IF isMapAST(field.type)
             THEN << writeMapWithOptAST(fieldName, field.type, c, makePublic) >>
             ELSE <<>>)
            \o << writeSetterOptAST(
                    IF isSliceOrArrayAST(field.type) \/ isMapAST(field.type)
                    THEN sSet ELSE sWith,
                    IF isSliceOrArrayAST(field.type) \/ isMapAST(field.type)
                    THEN "replace" ELSE "direct",
                    fieldName, field.type, c, makePublic) >>)

FieldOptFuncsFor(tagInfo, field, fieldName, file, c) ==
    IF tagInfo.fatal # NoDiag THEN Fatal(tagInfo.fatal)
    ELSE IF tagInfo.info.Action \in {"skip", "readonly"} THEN Ok(<<>>)
    ELSE FieldSetters(tagInfo.info,
                      MakePublic(tagInfo.info, IsExported(fieldName)),
                      field, fieldName, file, c)

\* the body of writeAllWithOptFuncsAST's loop for one (field, name)
FieldOptFuncs(field, fieldName, file, c) ==
    FieldOptFuncsFor(parseOptgenTag(field), field, fieldName, file, c)

RECURSIVE AllWithOptFuncs(_, _, _, _)
AllWithOptFuncs(pairs, i, file, c) ==
    IF i > Len(pairs) THEN Ok(<<>>)
    ELSE Then(FieldOptFuncs(pairs[i].field, pairs[i].name, file, c),
              AllWithOptFuncs(pairs, i + 1, file, c))

\* writeAllWithOptFuncsAST(buf, st, outdir, c, resolver, file)
writeAllWithOptFuncsAST(st, file, c) == AllWithOptFuncs(NamePairs(st), 1, file, c)

\* ------------------------------------------------------------------------
\* Run-time values and the meaning of the generated bodies
\* ------------------------------------------------------------------------

VStr(x) == [t |-> "string", v |-> x]

VInt(n) == [t |-> "int", v |-> n]

VNil == [t |-> "nil", v |-> ""]

VPtr(x) == [t |-> "ptr", v |-> x]

VSlice(xs) == [t |-> "slice", v |-> xs]

VMap(m) == [t |-> "gomap", v |-> m]

VStruct(m) == [t |-> "struct", v |-> m]

VOpaque(x) == [t |-> "opaque", v |-> x]

\* values stored in a debug map besides the field values themselves
DMap(m) == [t |-> "dbgmap", v |-> m]

DSlice(xs) == [t |-> "anyslice", v |-> xs]

Sprintf(format, arg) == [t |-> "sprintf", v |-> <<format, arg>>]

\* the result of calling a generated method: a map, a panic, or no such code
NoResult == [status |-> "none", map |-> <<>>]

Result(m) == [status |-> "ok", map |-> m]

Panic == [status |-> "panic", map |-> <<>>]

NoCode == [status |-> "nocode", map |-> <<>>]

\* no instance at an address; no call under way
NoObj == [t |-> "none", v |-> ""]

NoCall == [entry |-> "none", opts |-> <<>>, recv |-> 0, stmt |-> 0, applied |-> 0,
           mustSetAt |-> <<>>, ret |-> 0, status |-> "none", start |-> <<>>]

\* no result of a call yet
NoRet == [status |-> "none", v |-> <<>>]

\* no function of package helpers has been called
NoHCall == [fn |-> "none", arg |-> <<>>, fmtValue |-> FALSE, ret |-> NoRet,
            again |-> NoRet, closure |-> NoRet]

\* writeAllWithOptFuncsAST is at its first field and no traversal is open
NoWalk == [stack |-> <<>>, next |-> 1]

\* the names declared by a field list, and the type of a declared name
DeclaredNames(fields) ==
    {NamePairs(fields)[i].name : i \in 1..Len(NamePairs(fields))}

TypeOfName(fields, n) ==
    LET ps == NamePairs(fields)
    IN  ps[CHOOSE i \in 1..Len(ps) : ps[i].name = n].field.type

\* the zero value of a declared type, and one value that is not zero
RECURSIVE ZeroValue(_, _)
ZeroValue(t, f) ==
    CASE t.kind = "Ident" /\ t.name = sString -> VStr("")
      [] t.kind = "Ident" /\ t.name \in BuiltinNames \ {sString} -> VInt(0)
      [] t.kind = "Ident" /\ t.name \notin BuiltinNames ->
            LET d == findStructDefInFile(f, t.name) IN
            IF d.found
            THEN VStruct([n \in DeclaredNames(d.fields) |->
                            ZeroValue(TypeOfName(d.fields, n), f)])
            ELSE VOpaque("x0")
      [] t.kind \in {"Star", "Array", "Map"} -> VNil
      [] OTHER -> VOpaque("x0")

RECURSIVE FullValue(_, _)
FullValue(t, f) ==
    CASE t.kind = "Ident" /\ t.name = sString -> VStr("a")
      [] t.kind = "Ident" /\ t.name \in BuiltinNames \ {sString} -> VInt(7)
      [] t.kind = "Ident" /\ t.name \notin BuiltinNames ->
            LET d == findStructDefInFile(f, t.name) IN
            IF d.found
            THEN VStruct([n \in DeclaredNames(d.fields) |->
                            FullValue(TypeOfName(d.fields, n), f)])
            ELSE VOpaque("x1")
      [] t.kind = "Star" -> VPtr(FullValue(t.elt[1], f))
      [] t.kind = "Array" -> VSlice(<<FullValue(t.elt[1], f), ZeroValue(t.elt[1], f)>>)
      [] t.kind = "Map" -> VMap([k \in {"a"} |-> FullValue(t.val[1], f)])
      [] OTHER -> VOpaque("x1")

\* sample values of a declared type
ValuesOf(t, f) ==
    CASE t.kind = "Ident" /\ t.name = sString -> {VStr(""), VStr("a"), VStr("b")}
      [] t.kind = "Star" ->
            {VNil, VPtr(ZeroValue(t.elt[1], f)), VPtr(FullValue(t.elt[1], f))}
      [] t.kind = "Array" -> {VNil, VSlice(<<>>), FullValue(t, f)}
      [] t.kind = "Map" -> {VNil, VMap(<<>>), FullValue(t, f)}
      [] OTHER -> {ZeroValue(t, f), FullValue(t, f)}

\* the instances of a struct with the given fields
Instances(fields, f) ==
    LET ns == DeclaredNames(fields)
        all == UNION {ValuesOf(TypeOfName(fields, n), f) : n \in ns}
    IN  { m \in [ns -> all] : \A n \in ns : m[n] \in ValuesOf(TypeOfName(fields, n), f) }

\* the struct a field value denotes when a method is called through it:
\* none for a nil pointer
Receiver(x) == IF x.t = "ptr" THEN x.v ELSE x

\* flatten: the writes `result[key] = value` the generated closure performs
\* on a map, nested maps inlined with dot-joined keys
\* the closure without its recursion: a nested map is stored under its key
FlattenWritesShallow(m) == { <<k, m[k]>> : k \in DOMAIN m }

RECURSIVE FlattenWrites(_)
FlattenWrites(m) ==
    UNION { IF m[k].t = "dbgmap"
            THEN { <<k \o sDot \o w[1], w[2]>> : w \in FlattenWrites(m[k].v) }
            ELSE { <<k, m[k]>> }
          : k \in DOMAIN m }

\* the maps flatten can return: for every written key one of the values
\* written under it (the last write in the map's iteration order wins)
FlattenResults(m) ==
    LET ws == FlattenWrites(m)
        ks == {w[1] : w \in ws}
    IN  { r \in [ks -> {w[2] : w \in ws}] : \A k \in ks : <<k, r[k]>> \in ws }

\* the statements of DebugMap as generated for the struct named typeName
DebugMapCode(typeName, f, sens) ==
    IF ~findStructDefInFile(f, typeName).found
    THEN Fatal(Diag("no structs found", <<>>, <<>>))
    ELSE DebugMapBody(NamePairs(findStructDefInFile(f, typeName).fields), 1,
                      MakeConfig(typeName, FALSE, FALSE), sens)

\* debugMap[key] = dv
One(key, dv) == Result(key :> dv)

\* "nil" for a nil pointer, slice or map, else the rendering
NilOr(x, dv) == IF x = VNil THEN VStr("nil") ELSE dv

\* "(empty)" for the empty string, else the rendering
EmptyOr(x, dv) == IF x = VStr("") THEN VStr("(empty)") ELSE dv

\* debugMap[key] = x.DebugMap(), n being the result of the nested call
NestedEntry(key, n) == IF n.status = "ok" THEN One(key, DMap(n.map)) ELSE n

\* for k, v := range x.FlatDebugMap() { debugMap[key + "." + k] = v }; fl is
\* the nested flat map
PrefixedEntries(key, fl) ==
    Result([k \in {key \o sDot \o ck : ck \in DOMAIN fl} |->
              fl[CHOOSE ck \in DOMAIN fl : key \o sDot \o ck = k]])

\* the nested FlatDebugMap(): its keys are distinct paths of field names, so
\* FlattenResults has one element
NestedFlat(key, n) ==
    IF n.status # "ok" THEN n
    ELSE PrefixedEntries(key, CHOOSE r \in FlattenResults(n.map) : TRUE)

\* one statement of a generated DebugMap body on the field value x; n is the
\* result of x.DebugMap() for the statements that call it
EvalDebugStmt(op, key, x, n) ==
    CASE op = "dbg_string" -> One(key, EmptyOr(x, x))
      [] op = "dbg_direct" -> One(key, x)
      [] op = "dbg_pointer" -> One(key, NilOr(x, x.v))
      [] op = "dbg_slice_size" ->
            One(key, NilOr(x, Sprintf("(slice of size %d)", VInt(Len(x.v)))))
      [] op = "dbg_map_size" ->
            One(key, NilOr(x, Sprintf("(map of size %d)",
                                      VInt(Cardinality(DOMAIN x.v)))))
      [] op = "dbg_slice_format_str" ->
            One(key, NilOr(x, DSlice([j \in 1..Len(x.v) |->
                                        EmptyOr(x.v[j], x.v[j])])))
      [] op = "dbg_slice_format" -> One(key, NilOr(x, DSlice(x.v)))
      [] op = "dbg_map_format" -> One(key, NilOr(x, Sprintf("%v", x)))
      [] op = "dbg_sprintf" -> One(key, Sprintf("%v", x))
      [] op = "dbg_struct" -> NestedEntry(key, n)
      [] op = "dbg_struct_format" -> NestedFlat(key, n)
      [] op = "sens_pointer" -> One(key, NilOr(x, VStr("(sensitive)")))
      [] op = "sens_string" -> One(key, EmptyOr(x, VStr("(sensitive)")))
      [] op = "sens_other" -> One(key, VStr("(sensitive)"))

\* the map after a statement and the statements that follow it; a panic ends
\* the call
ThenStmts(this, rest) ==
    IF this.status # "ok" THEN this
    ELSE IF rest.status # "ok" THEN rest
    ELSE Result(rest.map @@ this.map)

\* the generated DebugMap body run on a struct value: EvalDebugStmts runs the
\* statements in order on the map built so far
RECURSIVE EvalDebugStmts(_, _, _, _, _, _)
RECURSIVE EvalNested(_, _, _, _)

\* the generated body `code` run on the receiver
RunDebugMapCode(code, x, fields, f, sens) ==
    IF code.fatal # NoDiag THEN NoCode
    ELSE EvalDebugStmts(code.decls, 1, Receiver(x).v, fields, f, sens)

\* x.DebugMap() for a field x of a same-package struct type
EvalNested(fieldType, x, f, sens) ==
    IF x = VNil THEN Panic
    ELSE RunDebugMapCode(
             DebugMapCode(getStructTypeName(fieldType), f, sens), x,
             findStructDefInFile(f, getStructTypeName(fieldType)).fields,
             f, sens)

EvalDebugStmts(stmts, i, val, fields, f, sens) ==
    IF i > Len(stmts) THEN Result(<<>>)
    ELSE ThenStmts(
           EvalDebugStmt(stmts[i].op, stmts[i].target, val[stmts[i].target],
                         EvalNested(TypeOfName(fields, stmts[i].target),
                                    val[stmts[i].target], f, sens)),
           EvalDebugStmts(stmts, i + 1, val, fields, f, sens))

\* the generated ToOption body run from a source onto a target instance
RECURSIVE EvalToOption(_, _, _, _)
EvalToOption(stmts, i, src, to) ==
    IF i > Len(stmts) THEN to
    ELSE EvalToOption(stmts, i + 1, src,
                      [to EXCEPT ![stmts[i].target] = src[stmts[i].target]])

\* ------------------------------------------------------------------------
\* Inputs: the scanned file, the requested struct and the flags
\* ------------------------------------------------------------------------

nKey  == <<"K","e","y">>
nAKey == <<"a","K","e","y">>
nPort == <<"P","o","r","t">>
nId   == <<"i","d">>
nHost == <<"H","o","s","t">>
nT    == <<"T">>
nIn   == <<"I","n">>
nDp   == <<"D","p">>
nNm   == <<"N","m">>
nTok  == <<"T","o","k">>
nRo   == <<"R","o">>
nSub  == <<"S","u","b">>
nLo   == <<"l","o">>
nZip  == <<"Z","i","p">>

\* the names of one field declaration: none (embedded), one, or two
FieldNameLists ==
    { <<>>, <<nKey>>, <<nAKey>>, <<nPort>>, <<nId>>, <<nPort, nId>>, <<nId, nPort>> }

FieldTypes ==
    { TIdent(sString), TIdent(sInt), TStar(TIdent(sString)),
      TArray(TIdent(sString), FALSE), TMap(TIdent(sString), TIdent(sInt)),
      TIdent(nIn), TStar(TIdent(nIn)), TSelector(sTime, sTimeT),
      TIndex(TIdent(sBox), TIdent(sInt)) }

OptgenTags ==
    { NoTag,
      OptgenTag(<<Flag("generate")>>),
      OptgenTag(<<Flag("skip")>>),
      OptgenTag(<<Flag("readonly")>>),
      OptgenTag(<<Flag("generate"), Flag("public")>>),
      OptgenTag(<<Flag("generate"), Flag("private")>>),
      OptgenTag(<<Flag("readonly"), Flag("public")>>),
      OptgenTag(<<Flag("generate"), Flag("recursive"), Flag("flatten")>>),
      OptgenTag(<<Flag("generate"), KV("flatten", <<"1">>), KV("prefix", <<"X">>)>>),
      OptgenTag(<<Flag("skip"), Flag("recursive"), Flag("flatten")>>),
      OptgenTag(<<Flag("readonly"), Flag("recursive"), KV("flatten", <<"2">>)>>),
      OptgenTag(<<Flag("generate"), KV("flatten", <<"-","1">>)>>),
      OptgenTag(<<Flag("skip"), KV("flatten", <<"x">>)>>),
      OptgenTag(<<Flag("generate"), KV("flatten", <<>>)>>),
      OptgenTag(<<Flag("bogus")>>),
      OptgenTag(<<Flag("")>>),
      OptgenTag(<<KV("generate", <<"1">>)>>),
      OptgenTag(<<Flag("readonly"), Flag("bogus")>>),
      OptgenTag(<<Flag("generate"), Flag("public"), KV("depth", <<"1">>)>>) }

DebugTags ==
    { NoTag, DebugTag("visible"), DebugTag("visible-format"),
      DebugTag("sensitive"), DebugTag("hidden"), DebugTag("bogus") }

ValidDebugTags ==
    { DebugTag("visible"), DebugTag("visible-format"),
      DebugTag("sensitive"), DebugTag("hidden") }

\* the field declarations under study: every combination of names and tags
\* on a string field, and every combination of exportedness, type, optgen tag
\* and recognised debugmap tag on a field with one name
FieldDecls ==
    { Field(n, TIdent(sString), o, d) :
        n \in FieldNameLists, o \in OptgenTags, d \in DebugTags }
    \cup
    { Field(n, t, o, d) :
        n \in {<<nPort>>, <<nId>>}, t \in FieldTypes, o \in OptgenTags,
        d \in ValidDebugTags }

\* a well-formed neighbour of the field under study
Companion == Field(<<nHost>>, TIdent(sString), NoTag, DebugTag("visible"))

\* the nested structs of the file
DpFields == << Field(<<nZip>>, TIdent(sString), NoTag, DebugTag("visible")) >>

InFields ==
    << Field(<<nNm>>, TIdent(sString), OptgenTag(<<Flag("generate")>>), DebugTag("visible")),
       Field(<<nTok>>, TIdent(sString), NoTag, DebugTag("sensitive")),
       Field(<<nRo>>, TIdent(sString), OptgenTag(<<Flag("readonly")>>), DebugTag("hidden")),
       Field(<<nSub>>, TIdent(nDp), NoTag, DebugTag("visible")),
       Field(<<nLo>>, TIdent(sInt), NoTag, NoTag) >>

SourceFile(tFields) ==
    << TypeSpec(nDp, TRUE, DpFields), TypeSpec(nIn, TRUE, InFields),
       TypeSpec(nT, TRUE, tFields) >>

\* -sensitive-field-name-matches, split at ","
SensitiveLists == { << <<"k","e","y">> >>, << <<"K","e","y">> >>,
                    << <<"t","o","k">>, <<"e","y">> >> }

\* ------------------------------------------------------------------------
\* The generator as a state machine
\* ------------------------------------------------------------------------

VARIABLES
    pkg,                   \* the parsed package: the set of its files
    file,                  \* the parsed source file at hand: a sequence of TypeSpec
    pending,               \* the files of the package the loop has not reached
    count,                 \* the number of files generated for
    structNames,           \* the requested struct names (command line)
    sensitiveNameMatches,  \* the sensitive substrings
    prefixFlag,            \* -prefix
    flattenFlag,           \* -flatten
    pc,                    \* the generator's position
    structs,               \* findStructDefsAST's result for the file
    idx,                   \* index in `structs` of the struct being generated
    buf,                   \* the declarations written so far (jen.File)
    diag,                  \* the fatal diagnostic, once the run has aborted
    output,                \* the rendered output file; <<>> while not written
    run,                   \* the position of the program using the output
    inst,                  \* an instance of the requested struct
    tgt0,                  \* the target of ToOption before it is applied
    tgt,                   \* the target of ToOption after it is applied
    dbg,                   \* the result of inst.DebugMap()
    flat,                  \* the result of inst.FlatDebugMap()
    heap,                  \* the instances of the requested struct, by address
    call,                  \* the call of a constructor or bulk-apply mutator
    golden,                \* the output of an earlier run, kept for comparison
    hcall,                 \* a call of a function of package helpers
    walk                   \* the calls of writeFlattenedOptFuncsAST in progress

vars == <<pkg, file, pending, count, structNames, sensitiveNameMatches, prefixFlag,
          flattenFlag, pc, structs, idx, buf, diag, output, run, inst, tgt0, tgt,
          dbg, flat, heap, call, golden, hcall, walk>>

rt == <<run, inst, tgt0, tgt, dbg, flat, heap, call, golden, hcall, walk>>

flags == <<structNames, sensitiveNameMatches, prefixFlag, flattenFlag>>

inputs == <<pkg, file, pending, count, flags>>

\* findStructDefsAST(file, names)
RECURSIVE findStructDefsAST(_, _)
findStructDefsAST(f, names) ==
    IF Len(f) = 0 THEN <<>>
    ELSE (IF f[1].name \in names /\ f[1].isStruct THEN <<f[1]>> ELSE <<>>)
         \o findStructDefsAST(Tail(f), names)

\* the state when main enters its loop over the files of the scanned package
\* `files` for the requested names and the flag setting fl; pkg.Files is a map,
\* so the loop may reach the files in any order
\* the state at the start of a run over an output file that holds prior
InitPkgOver(files, names, fl, prior) ==
    /\ pkg = files
    /\ \E f \in files : file = f /\ pending = files \ {f}
    /\ count = 0
    /\ structNames = names
    /\ sensitiveNameMatches = fl[1]
    /\ prefixFlag = fl[2]
    /\ flattenFlag = fl[3]
    /\ pc = "start"
    /\ structs = <<>>
    /\ idx = 0
    /\ buf = <<>>
    /\ diag = NoDiag
    /\ output = prior
    /\ run = "idle"
    /\ inst = <<>>
    /\ tgt0 = <<>>
    /\ tgt = <<>>
    /\ dbg = NoResult
    /\ flat = NoResult
    /\ heap = <<NoObj, NoObj>>
    /\ call = NoCall
    /\ golden = prior
    /\ hcall = NoHCall
    /\ walk = NoWalk

\* the state at the start of a run that finds no output file
InitPkg(files, names, fl) == InitPkgOver(files, names, fl, <<>>)

\* the initial state for a set of field declarations and of flag settings:
\* a package of one file, struct T requested
InitWith(decls, flagSets) ==
    \E probe \in decls :
       \E tFields \in { <<probe>>, <<Companion, probe>> } :
          \E fl \in flagSets : InitPkg({SourceFile(tFields)}, {nT}, fl)

\* every sensitive list with -prefix and -flatten off, and every setting of
\* -prefix and -flatten with the first list
FlagSets ==
    { <<l, FALSE, FALSE>> : l \in SensitiveLists }
    \cup { << << <<"k","e","y">> >>, p, f>> : p \in BOOLEAN, f \in BOOLEAN }

Init == InitWith(FieldDecls, FlagSets)

\* the struct being generated and its Config
CurStruct == structs[idx]

CurConfig == MakeConfig(CurStruct.name, prefixFlag, flattenFlag)

\* main's loop moves on after cnt files were generated for: to a file not
\* yet reached, and after the last file to the end of the run, which is
\* fatal when no file had a requested struct (lines 181-203)
NextFile(cnt) ==
    IF pending = {}
    THEN /\ UNCHANGED <<file, pending>>
         /\ IF cnt = 0
            THEN pc' = "fatal" /\ diag' = Diag("no structs found", <<>>, <<>>)
            ELSE pc' = "done" /\ diag' = diag
    ELSE /\ \E f \in pending : file' = f /\ pending' = pending \ {f}
         /\ pc' = "start"
         /\ diag' = diag

\* the scan of a file with the output opened, and truncated, before the
\* structs of the file are synthesized
ScanTruncating ==
    /\ pc = "start"
    /\ IF Len(findStructDefsAST(file, structNames)) = 0
       THEN /\ NextFile(count)
            /\ UNCHANGED <<structs, idx, buf, count, output>>
       ELSE /\ pc' = "type"
            /\ structs' = findStructDefsAST(file, structNames)
            /\ idx' = 1
            /\ buf' = <<>>
            /\ output' = <<>>
            /\ diag' = diag
            /\ UNCHANGED <<file, pending, count>>
    /\ UNCHANGED <<pkg, flags, rt>>


\* main: scan the file at hand for the requested structs; a file without one
\* is passed over, another starts generateForFileAST with an empty buffer
\* (lines 181-190, 427-438)
Scan ==
    /\ pc = "start"
    /\ IF Len(findStructDefsAST(file, structNames)) = 0
       THEN /\ NextFile(count)
            /\ UNCHANGED <<structs, idx, buf, count>>
       ELSE /\ pc' = "type"
            /\ structs' = findStructDefsAST(file, structNames)
            /\ idx' = 1
            /\ buf' = <<>>
            /\ diag' = diag
            /\ UNCHANGED <<file, pending, count>>
    /\ UNCHANGED <<pkg, flags, rt, output>>

\* writeOptionTypeAST, writeNewXWithOptionsAST, writeNewXWithOptionsAndDefaultsAST
WriteTypeAndConstructors ==
    /\ pc = "type"
    /\ LET c == CurConfig
           new == <<"N","e","w">> \o c.TargetTypeName \o sWith \o sOptions
       IN  buf' = buf \o
             << Decl("OptionType", c.OptTypeName, c, <<>>),
                Decl("NewWithOptions", new, c, <<Stmt("applyOptions", <<>>)>>),
                Decl("NewWithOptionsAndDefaults",
                     new \o <<"A","n","d","D","e","f","a","u","l","t","s">>, c,
                     <<Stmt("MustSet", <<>>), Stmt("applyOptions", <<>>)>>) >>
    /\ pc' = "tooption"
    /\ UNCHANGED <<inputs, rt, structs, idx, diag, output>>

\* a writer that may exit: on a fatal diagnostic the process ends
Step(r, nextPc) ==
    IF r.fatal # NoDiag
    THEN /\ pc' = "fatal"
         /\ diag' = r.fatal
         /\ buf' = buf
    ELSE /\ pc' = nextPc
         /\ diag' = diag
         /\ buf' = buf \o r.decls

WriteToOption ==
    /\ pc = "tooption"
    /\ Step(writeToOptionAST(CurStruct.fields, CurConfig), "debugmap")
    /\ UNCHANGED <<inputs, rt, structs, idx, output>>

WriteDebugMap ==
    /\ pc = "debugmap"
    /\ Step(writeDebugMapAST(CurStruct.fields, CurConfig, sensitiveNameMatches), "bulk")
    /\ UNCHANGED <<inputs, rt, structs, idx, output>>

\* writeXWithOptionsAST, writeWithOptionsAST
WriteBulkApply ==
    /\ pc = "bulk"
    /\ LET c == CurConfig IN
       buf' = buf \o
         << Decl("XWithOptions", c.TargetTypeName \o sWith \o sOptions, c,
                 <<Stmt("applyOptions", <<>>)>>),
            Decl("WithOptions", sWith \o sOptions, c,
                 <<Stmt("applyOptions", <<>>)>>) >>
    /\ pc' = "withfuncs"
    /\ UNCHANGED <<inputs, rt, structs, idx, diag, output>>

WriteAllWithOptFuncs ==
    /\ pc = "withfuncs"
    /\ LET r == writeAllWithOptFuncsAST(CurStruct.fields, file, CurConfig) IN
       /\ Step(r, IF idx < Len(structs) THEN "type" ELSE "render")
       /\ idx' = IF r.fatal = NoDiag /\ idx < Len(structs) THEN idx + 1 ELSE idx
    /\ UNCHANGED <<inputs, rt, structs, output>>

\* w := writer(); buf.Render(w): the output file is opened with O_TRUNC and
\* holds the buffer of this file alone; then count++ and the loop goes on
Render ==
    /\ pc = "render"
    /\ output' = buf
    /\ count' = count + 1
    /\ NextFile(count + 1)
    /\ UNCHANGED <<pkg, flags, rt, structs, idx, buf>>

Next ==
    \/ Scan
    \/ WriteTypeAndConstructors
    \/ WriteToOption
    \/ WriteDebugMap
    \/ WriteBulkApply
    \/ WriteAllWithOptFuncs
    \/ Render

Spec == Init /\ [][Next]_vars

\* ------------------------------------------------------------------------
\* The program that uses the rendered output
\* ------------------------------------------------------------------------

\* the requested struct's fields
TFields == findStructDefInFile(file, nT).fields

\* the body of a declaration of the output
BodyOf(kind) ==
    output[CHOOSE i \in 1..Len(output) :
              output[i].kind = kind /\ output[i].struct = nT].body

\* an instance of the requested struct comes into being (a constructor call
\* followed by options, or a literal of the same package)
NewInstance ==
    /\ pc = "done"
    /\ run = "idle"
    /\ inst' \in Instances(TFields, file)
    /\ run' = "built"
    /\ UNCHANGED <<inputs, pc, structs, idx, buf, diag, output, tgt0, tgt, dbg, flat, heap, call, golden, hcall, walk>>

\* inst.DebugMap() and inst.FlatDebugMap()
CallDebugMap ==
    /\ run = "built"
    /\ LET r == EvalDebugStmts(BodyOf("DebugMap"), 1, inst, TFields, file,
                               sensitiveNameMatches)
       IN  /\ dbg' = r
           /\ IF r.status = "ok"
              THEN \E m \in FlattenResults(r.map) : flat' = Result(m)
              ELSE flat' = r
    /\ run' = "debugged"
    /\ UNCHANGED <<inputs, pc, structs, idx, buf, diag, output, inst, tgt0, tgt, heap, call, golden, hcall, walk>>

\* inst.ToOption()(to) for some target instance `to`
CallToOption ==
    /\ run = "built"
    /\ \E to \in Instances(TFields, file) :
         /\ tgt0' = to
         /\ tgt' = EvalToOption(BodyOf("ToOption"), 1, inst, to)
    /\ run' = "copied"
    /\ UNCHANGED <<inputs, pc, structs, idx, buf, diag, output, inst, dbg, flat, heap, call, golden, hcall, walk>>

\* the field declarations and flags the generated code is run for
RunOptgenTags ==
    { NoTag,
      OptgenTag(<<Flag("generate")>>),
      OptgenTag(<<Flag("skip")>>),
      OptgenTag(<<Flag("readonly")>>),
      OptgenTag(<<Flag("generate"), Flag("public")>>),
      OptgenTag(<<Flag("readonly"), Flag("public")>>) }

RunDecls ==
    { d \in FieldDecls : d.optgen \in RunOptgenTags /\ d.debugmap \in ValidDebugTags }

RunFlagSets == { << << <<"k","e","y">> >>, FALSE, FALSE>> }

InitRun == InitWith(RunDecls, RunFlagSets)

NextRun == Next \/ NewInstance \/ CallDebugMap \/ CallToOption

SpecRun == InitRun /\ [][NextRun]_vars

\* ------------------------------------------------------------------------
\* Properties of the generator
\* ------------------------------------------------------------------------

\* the (field, name) pairs of the requested struct, in declaration order
TPairs == NamePairs(TFields)

\* writeDebugMapAST has returned for the requested struct
PastDebugMap == pc \in {"bulk", "withfuncs", "render", "done"}

VisibleTags == {DebugTag("visible"), DebugTag("visible-format")}

\* the name matches a configured substring when both are compared without
\* regard to letter case
MatchesFolded(name) ==
    \E k \in 1..Len(sensitiveNameMatches) :
        Contains(ToLower(name), ToLower(sensitiveNameMatches[k]))

\* the lower-cased name contains a configured substring as it was given
MatchesAsGiven(name) ==
    \E k \in 1..Len(sensitiveNameMatches) :
        Contains(ToLower(name), sensitiveNameMatches[k])

\* C1, as stated: an exported field tagged visible or visible-format whose
\* name matches a configured sensitive substring, letter case disregarded on
\* both sides, never gets past writeDebugMapAST: generation aborts.
C1_FoldedMatchAborts ==
    \A i \in 1..Len(TPairs) :
        ( /\ IsExported(TPairs[i].name)
          /\ TPairs[i].field.debugmap \in VisibleTags
          /\ MatchesFolded(TPairs[i].name) )
        => ~PastDebugMap

\* C1: the gate does work for a substring configured in lower case: the run
\* has ended with the diagnostic naming the field and the struct
C1_Witness ==
    /\ pc = "fatal"
    /\ diag = Diag("must be marked as sensitive", nKey, nT)
    /\ sensitiveNameMatches = << <<"k","e","y">> >>

\* C2, as stated: when generation completes, every named field, exported or
\* not, whose lower-cased name contains a configured substring is tagged
\* sensitive.
C2_AllMatchingAreSensitive ==
    pc = "done" =>
        \A i \in 1..Len(TPairs) :
            MatchesAsGiven(TPairs[i].name)
            => TPairs[i].field.debugmap = DebugTag("sensitive")

\* C2, amended: once writeDebugMapAST has returned, every exported named
\* field whose lower-cased name contains a configured substring is tagged
\* sensitive or hidden; none is accepted as visible or visible-format.
C2_ExportedMatchingNotVisible ==
    PastDebugMap =>
        \A i \in 1..Len(TPairs) :
            ( IsExported(TPairs[i].name) /\ MatchesAsGiven(TPairs[i].name) )
            => TPairs[i].field.debugmap \in {DebugTag("sensitive"), DebugTag("hidden")}

\* C2: generation has completed for a struct with an exported field of a
\* sensitive name that is tagged hidden
C2_Witness ==
    /\ pc = "done"
    /\ \E i \in 1..Len(TPairs) :
          /\ IsExported(TPairs[i].name)
          /\ MatchesAsGiven(TPairs[i].name)
          /\ TPairs[i].field.debugmap = DebugTag("hidden")

\* ------------------------------------------------------------------------
\* Properties of the generated DebugMap and FlatDebugMap
\* ------------------------------------------------------------------------

\* inst.DebugMap() and inst.FlatDebugMap() have returned their maps
Debugged == run = "debugged" /\ dbg.status = "ok"

\* the keys of a debug map that are the name or start with the name and a dot
KeysFrom(m, name) ==
    { k \in DOMAIN m :
        \/ k = name
        \/ ( /\ Len(k) > Len(name)
             /\ SubSeq(k, 1, Len(name) + 1) = name \o sDot ) }

\* the (field, name) pairs of the nested struct In
InPairs == NamePairs(findStructDefInFile(file, nIn).fields)

\* the named fields of the requested struct whose type is In or *In
IsInField(p) == p.field.type \in {TIdent(nIn), TStar(TIdent(nIn))}

\* C3: a field tagged hidden has no key in DebugMap() nor in FlatDebugMap(),
\* whatever the instance, and no key derived from it with dots; the same holds
\* for the hidden fields of a nested struct, in the nested map and under the
\* dot-joined keys of the enclosing maps.
C3_HiddenAbsent ==
    Debugged =>
        /\ \A i \in 1..Len(TPairs) :
              TPairs[i].field.debugmap = DebugTag("hidden")
              => /\ KeysFrom(dbg.map, TPairs[i].name) = {}
                 /\ KeysFrom(flat.map, TPairs[i].name) = {}
        /\ \A i \in 1..Len(TPairs), j \in 1..Len(InPairs) :
              ( IsInField(TPairs[i]) /\ InPairs[j].field.debugmap = DebugTag("hidden") )
              => /\ KeysFrom(dbg.map, TPairs[i].name \o sDot \o InPairs[j].name) = {}
                 /\ KeysFrom(flat.map, TPairs[i].name \o sDot \o InPairs[j].name) = {}
                 /\ ( /\ TPairs[i].name \in DOMAIN dbg.map
                      /\ dbg.map[TPairs[i].name].t = "dbgmap" )
                    => KeysFrom(dbg.map[TPairs[i].name].v, InPairs[j].name) = {}

\* C3: the maps of an instance whose hidden exported field holds a value,
\* beside a visible field that is in the maps
C3_Witness ==
    /\ Debugged
    /\ nHost \in DOMAIN dbg.map
    /\ nHost \in DOMAIN flat.map
    /\ \E i \in 1..Len(TPairs) :
          /\ TPairs[i].field.debugmap = DebugTag("hidden")
          /\ IsExported(TPairs[i].name)
          /\ inst[TPairs[i].name] = VStr("a")

\* the literal a sensitive field of declared type t holding x is shown as
SensitiveLiteral(t, x) ==
    IF t.kind = "Star" /\ x = VNil THEN VStr("nil")
    ELSE IF t = TIdent(sString) /\ x = VStr("") THEN VStr("(empty)")
    ELSE VStr("(sensitive)")

\* two instances that differ, if at all, only in sensitive exported fields
\* holding a non-nil, non-empty value in both
SameButSecrets(a, b) ==
    \A i \in 1..Len(TPairs) :
        \/ a[TPairs[i].name] = b[TPairs[i].name]
        \/ /\ TPairs[i].field.debugmap = DebugTag("sensitive")
           /\ IsExported(TPairs[i].name)
           /\ {a[TPairs[i].name], b[TPairs[i].name]} \cap {VNil, VStr("")} = {}

\* the map DebugMap() returns for an instance of the requested struct
DebugMapOf(x) ==
    EvalDebugStmts(BodyOf("DebugMap"), 1, x, TFields, file, sensitiveNameMatches)

\* C4: the value DebugMap() and FlatDebugMap() store for a sensitive field is
\* "nil" for a nil pointer, "(empty)" for a field of type string holding the
\* empty string and "(sensitive)" otherwise (a nil slice or map included),
\* also for the sensitive field of a nested struct; and two
\* instances that differ only in non-nil, non-empty values of sensitive
\* fields have the same DebugMap().
C4_SensitiveLiterals ==
    /\ Debugged =>
        /\ \A i \in 1..Len(TPairs) :
              ( /\ TPairs[i].field.debugmap = DebugTag("sensitive")
                /\ IsExported(TPairs[i].name) )
              => /\ TPairs[i].name \in DOMAIN dbg.map
                 /\ TPairs[i].name \in DOMAIN flat.map
                 /\ dbg.map[TPairs[i].name] =
                       SensitiveLiteral(TPairs[i].field.type, inst[TPairs[i].name])
                 /\ flat.map[TPairs[i].name] =
                       SensitiveLiteral(TPairs[i].field.type, inst[TPairs[i].name])
        /\ \A i \in 1..Len(TPairs) :
              ( /\ IsInField(TPairs[i])
                /\ TPairs[i].name \in DOMAIN dbg.map
                /\ dbg.map[TPairs[i].name].t = "dbgmap" )
              => /\ dbg.map[TPairs[i].name].v[nTok] =
                       SensitiveLiteral(TIdent(sString),
                                        Receiver(inst[TPairs[i].name]).v[nTok])
                 /\ flat.map[TPairs[i].name \o sDot \o nTok] =
                       SensitiveLiteral(TIdent(sString),
                                        Receiver(inst[TPairs[i].name]).v[nTok])
    /\ run = "built" =>
        \A b \in Instances(TFields, file) :
            SameButSecrets(inst, b) => DebugMapOf(inst) = DebugMapOf(b)

\* C4: the maps of an instance whose sensitive string field holds a value
\* that is neither empty nor nil
C4_Witness ==
    /\ Debugged
    /\ \E i \in 1..Len(TPairs) :
          /\ TPairs[i].field.debugmap = DebugTag("sensitive")
          /\ IsExported(TPairs[i].name)
          /\ inst[TPairs[i].name] = VStr("b")
          /\ dbg.map[TPairs[i].name] = VStr("(sensitive)")
          /\ flat.map[TPairs[i].name] = VStr("(sensitive)")

\* ------------------------------------------------------------------------
\* Properties of ToOption and of the option functions
\* ------------------------------------------------------------------------

\* the action a named field's directive states: the first token of its optgen
\* tag, and without a tag generate for an exported name, skip for an
\* unexported one
DirectiveAction(p) ==
    IF p.field.optgen.present THEN p.field.optgen.parts[1].key
    ELSE IF IsExported(p.name) THEN "generate"
    ELSE "skip"

\* the option functions written for the field called name
SettersFor(name) ==
    { k \in 1..Len(buf) : buf[k].kind = "Setter" /\ buf[k].root = name }

\* the statements of the ToOption written for the requested struct
ToOptionStmts ==
    UNION { { buf[k].body[j] : j \in 1..Len(buf[k].body) } :
              k \in { k \in 1..Len(buf) : buf[k].kind = "ToOption" } }

\* writeToOptionAST, writeAllWithOptFuncsAST have returned
PastToOption == pc \in {"debugmap", "bulk", "withfuncs", "render", "done"}

PastWithFuncs == pc \in {"render", "done"}

\* C5, as stated: x.ToOption() applied to a target copies every exported
\* field whose action is not skip, readonly fields included, and leaves every
\* other field of the target as it was.
C5_CopiesExportedNonSkip ==
    run = "copied" =>
        \A i \in 1..Len(TPairs) :
            tgt[TPairs[i].name] =
                IF IsExported(TPairs[i].name) /\ DirectiveAction(TPairs[i]) # "skip"
                THEN inst[TPairs[i].name]
                ELSE tgt0[TPairs[i].name]

\* C6, as stated: the ToOption written for the struct copies an unexported
\* field tagged `optgen:"readonly,public"`.
C6_PrivateReadonlyPublicCopied ==
    PastToOption =>
        \A i \in 1..Len(TPairs) :
            ( /\ ~IsExported(TPairs[i].name)
              /\ TPairs[i].field.optgen = OptgenTag(<<Flag("readonly"), Flag("public")>>) )
            => Stmt("copy", TPairs[i].name) \in ToOptionStmts

\* C7, as stated: no option function of any kind is written for a field whose
\* action is skip or readonly, whatever its exportedness, type and flags.
C7_NoMutatorForSkipReadonly ==
    \A i \in 1..Len(TPairs) :
        DirectiveAction(TPairs[i]) \in {"skip", "readonly"}
        => SettersFor(TPairs[i].name) = {}

\* C8, as stated: of the named fields without an optgen tag, an exported one
\* gets the option functions of its type under exported names and an
\* unexported one gets none.
C8_UntaggedDefault ==
    PastWithFuncs =>
        \A i \in 1..Len(TPairs) :
            ~TPairs[i].field.optgen.present
            => IF IsExported(TPairs[i].name)
               THEN /\ SettersFor(TPairs[i].name) # {}
                    /\ \A k \in SettersFor(TPairs[i].name) : IsExported(buf[k].name)
               ELSE SettersFor(TPairs[i].name) = {}

\* ------------------------------------------------------------------------
\* Properties of the interpretation of the tags
\* ------------------------------------------------------------------------

\* the text denotes an integer that is not negative: an optional sign, one or
\* more digits, and only zeros after a minus sign
DenotesNatural(v) ==
    LET body == IF Len(v) > 0 /\ v[1] \in {"+", "-"} THEN Tail(v) ELSE v
    IN  /\ Len(body) > 0
        /\ \A j \in 1..Len(body) : IsDigit(body[j])
        /\ (v[1] = "-" => \A j \in 1..Len(body) : body[j] = "0")

\* a token after the first that is neither a known flag nor a known
\* key:value pair with a value of the right form
BadPart(part) ==
    IF part.colon
    THEN \/ part.key \notin {"flatten", "prefix"}
         \/ part.key = "flatten" /\ ~DenotesNatural(part.value)
    ELSE part.key \notin {"public", "private", "recursive", "flatten"}

\* an optgen directive the interpretation has to reject
BadDirective(tag) ==
    /\ tag.present
    /\ \/ tag.parts[1].colon
       \/ tag.parts[1].key \notin {"generate", "skip", "readonly"}
       \/ \E j \in 2..Len(tag.parts) : BadPart(tag.parts[j])

OptgenDiags == {"unknown optgen action", "invalid flatten depth", "unknown optgen option"}

\* C9, as stated: generation does not complete for a struct with a field,
\* named or embedded, whose optgen directive has an unknown first token, a
\* flatten value that is no non-negative integer, or an unknown later token.
C9_BadDirectiveAborts ==
    \A i \in 1..Len(TFields) :
        BadDirective(TFields[i].optgen) => ~PastWithFuncs

\* C9, amended: generation does not complete for a struct with a named field,
\* exported or not and of any type and action, whose optgen directive has an
\* unknown first token, a flatten value that is no non-negative integer, or an
\* unknown later token.
C9_BadDirectiveOnNamedAborts ==
    \A i \in 1..Len(TFields) :
        ( Len(TFields[i].names) > 0 /\ BadDirective(TFields[i].optgen) )
        => ~PastWithFuncs

\* C9: the run has ended on the directive of an unexported field whose first
\* token is skip and whose flatten value is not a number
C9_Witness ==
    /\ pc = "fatal"
    /\ diag = Diag("invalid flatten depth", nId, <<>>)
    /\ \E i \in 1..Len(TFields) :
          /\ TFields[i].names = <<nId>>
          /\ TFields[i].optgen = OptgenTag(<<Flag("skip"), KV("flatten", <<"x">>)>>)

\* the debugmap tag is absent or its value is not a mode
BadDebugTag(tag) ==
    ~tag.present \/ tag.value \notin {"visible", "visible-format", "sensitive", "hidden"}

\* C10, as stated: generation aborts for a struct with an exported field
\* without debugmap tag, whatever its optgen action, and for a struct with a
\* field, of any kind, whose debugmap tag has an unknown value.
C10_DebugTagChecked ==
    /\ \A i \in 1..Len(TPairs) :
          ( IsExported(TPairs[i].name) /\ ~TPairs[i].field.debugmap.present )
          => ~PastDebugMap
    /\ \A i \in 1..Len(TFields) :
          ( TFields[i].debugmap.present /\ BadDebugTag(TFields[i].debugmap) )
          => ~PastDebugMap

\* C10, amended: generation aborts for a struct with an exported named field
\* whose debugmap tag is absent or has an unknown value, whatever the field's
\* optgen action.
C10_DebugTagOnExportedChecked ==
    \A i \in 1..Len(TPairs) :
        ( IsExported(TPairs[i].name) /\ BadDebugTag(TPairs[i].field.debugmap) )
        => ~PastDebugMap

\* C10: the run has ended on the missing debugmap tag of an exported field
\* whose action is skip
C10_Witness ==
    /\ pc = "fatal"
    /\ diag.msg = "missing debugmap tag"
    /\ diag.type = nT
    /\ \E i \in 1..Len(TPairs) :
          /\ diag.field = TPairs[i].name
          /\ IsExported(TPairs[i].name)
          /\ ~TPairs[i].field.debugmap.present
          /\ TPairs[i].field.optgen = OptgenTag(<<Flag("skip")>>)

\* ------------------------------------------------------------------------
\* Properties of the option functions' names and kinds
\* ------------------------------------------------------------------------

\* the option functions that assign, append to or add an entry to the field
\* itself (not its Options or flattened variants)
PlainVariants == {"direct", "append", "addentry", "replace"}

\* the tag of the declaration states the flag
HasFlag(p, flag) ==
    /\ p.field.optgen.present
    /\ \E j \in 1..Len(p.field.optgen.parts) : p.field.optgen.parts[j] = Flag(flag)

\* the visibility the directive resolves to: the explicit flag, and without
\* one the exportedness of the name
ResolvedPublic(p) ==
    IF HasFlag(p, "public") THEN TRUE
    ELSE IF HasFlag(p, "private") THEN FALSE
    ELSE IsExported(p.name)

\* verb + struct name (prefix mode) + field name with its first character in
\* upper case, the first character of the whole lowered when private
ExpectedName(verb, p) ==
    LET id == verb \o (IF prefixFlag THEN nT ELSE <<>>)
                   \o <<ToUpperCh(p.name[1])>> \o Tail(p.name)
    IN  IF ResolvedPublic(p) THEN id ELSE <<ToLowerCh(id[1])>> \o Tail(id)

\* C11: every direct, append, add-entry and replace-all option function of a
\* field is called verb (Set for replace-all, With otherwise) + struct name
\* (prefix mode only) + field name with its first character upper-cased; when
\* the resolved visibility (explicit public/private flag, else the field's
\* own exportedness) is private the first character of the whole identifier
\* is lower-cased and nothing else changes.
C11_MutatorNames ==
    \A i \in 1..Len(TPairs) :
        \A k \in SettersFor(TPairs[i].name) :
            buf[k].variant \in PlainVariants
            => buf[k].name =
                 ExpectedName(IF buf[k].variant = "replace" THEN sSet ELSE sWith,
                              TPairs[i])

\* C11 witness: in prefix mode the exported field Port tagged private has the
\* option function withTPort
C11_Witness ==
    /\ PastWithFuncs
    /\ prefixFlag
    /\ \E i \in 1..Len(TPairs) :
         /\ TPairs[i].name = nPort
         /\ HasFlag(TPairs[i], "private")
         /\ \E k \in SettersFor(nPort) :
              buf[k].name = <<"w","i","t","h","T","P","o","r","t">>

\* the kind of a declared type in the specification's classification: a
\* builtin name is Primitive, *X is Pointer whatever X is, []X is Sequence,
\* map[K]V is Map, another bare name is a Local aggregate, pkg.Name a Foreign
\* aggregate, and a generic instantiation is Other
DeclaredKind(t) ==
    CASE t.kind = "Ident" /\ t.name \in BuiltinNames -> "Primitive"
      [] t.kind = "Ident" /\ t.name \notin BuiltinNames -> "Local"
      [] t.kind = "Star" -> "Pointer"
      [] t.kind = "Array" -> "Sequence"
      [] t.kind = "Map" -> "Map"
      [] t.kind = "Selector" -> "Foreign"
      [] OTHER -> "Other"

\* the tag states a flatten flag or a flatten:N pair
HasKey(p, key) ==
    /\ p.field.optgen.present
    /\ \E j \in 1..Len(p.field.optgen.parts) : p.field.optgen.parts[j].key = key

\* how many option functions of the variant the field called name has
VariantCount(name, variant) ==
    Cardinality({ k \in SettersFor(name) : buf[k].variant = variant })

\* the numbers of option functions of the field, variant by variant
VariantCounts(name) ==
    [v \in {"direct", "append", "addentry", "replace", "options", "flattened"}
       |-> VariantCount(name, v)]

OnlyVariants(name, counts) ==
    VariantCounts(name) =
        counts @@ [v \in {"direct", "append", "addentry", "replace", "options", "flattened"} |-> 0]

\* C12, as stated: the option functions of a field with action generate are,
\* by its declared type: Primitive, Pointer, Other and Foreign aggregate one
\* direct-assignment setter and nothing else, also when tagged recursive or
\* flatten; Sequence an append-one and a replace-all setter; Map an
\* add-one-entry and a replace-all setter; Local aggregate the direct setter,
\* one Options setter exactly when recursive is requested, and flattened
\* setters only when flatten is requested.
C12_MutatorsByType ==
    PastWithFuncs =>
        \A i \in 1..Len(TPairs) :
            DirectiveAction(TPairs[i]) = "generate"
            => LET n == TPairs[i].name
                   kind == DeclaredKind(TPairs[i].field.type)
               IN  CASE kind \in {"Primitive", "Pointer", "Other", "Foreign"} ->
                          OnlyVariants(n, [v \in {"direct"} |-> 1])
                     [] kind = "Sequence" ->
                          OnlyVariants(n, [v \in {"append", "replace"} |-> 1])
                     [] kind = "Map" ->
                          OnlyVariants(n, [v \in {"addentry", "replace"} |-> 1])
                     [] OTHER ->
                          /\ VariantCount(n, "direct") = 1
                          /\ VariantCount(n, "options") =
                               (IF HasFlag(TPairs[i], "recursive") THEN 1 ELSE 0)
                          /\ VariantCount(n, "flattened") > 0
                               => (HasKey(TPairs[i], "flatten") \/ flattenFlag)
                          /\ VariantCount(n, "append") + VariantCount(n, "addentry")
                               + VariantCount(n, "replace") = 0

\* ------------------------------------------------------------------------
\* The generator on a field whose type nests structs three levels deep
\* ------------------------------------------------------------------------

nLa  == <<"L","a">>
nLb  == <<"L","b">>
nLc  == <<"L","c">>
nMb  == <<"M","b">>
nMc  == <<"M","c">>
nHid == <<"H","i","d">>
nSk  == <<"S","k">>
nFt  == <<"F","t">>
nLat == <<"L","a","t">>

LcFields == << Field(<<nLat>>, TIdent(sString), NoTag, DebugTag("visible")) >>

LbFields ==
    << Field(<<nZip>>, TIdent(sString), NoTag, DebugTag("visible")),
       Field(<<nMc>>, TIdent(nLc), OptgenTag(<<Flag("generate"), Flag("recursive")>>), DebugTag("visible")) >>

LaFields ==
    << Field(<<nNm>>, TIdent(sString), OptgenTag(<<Flag("generate")>>), DebugTag("visible")),
       Field(<<nRo>>, TIdent(sString), OptgenTag(<<Flag("readonly")>>), DebugTag("visible")),
       Field(<<nSk>>, TIdent(sString), OptgenTag(<<Flag("skip")>>), DebugTag("visible")),
       Field(<<nLo>>, TIdent(sInt), NoTag, NoTag),
       Field(<<nMb>>, TIdent(nLb), NoTag, DebugTag("visible")),
       Field(<<nHid>>, TIdent(nLb), OptgenTag(<<Flag("skip")>>), DebugTag("hidden")),
       Field(<<nFt>>, TSelector(sTime, sTimeT), NoTag, DebugTag("visible")) >>

\* a file with the structs La > Lb > Lc and the requested struct T
DeepFile(tFields) ==
    << TypeSpec(nLc, TRUE, LcFields), TypeSpec(nLb, TRUE, LbFields),
       TypeSpec(nLa, TRUE, LaFields), TypeSpec(nT, TRUE, tFields) >>

FlattenTags ==
    { NoTag,
      OptgenTag(<<Flag("generate")>>),
      OptgenTag(<<Flag("generate"), Flag("flatten")>>),
      OptgenTag(<<Flag("generate"), KV("flatten", <<"0">>)>>),
      OptgenTag(<<Flag("generate"), KV("flatten", <<"1">>)>>),
      OptgenTag(<<Flag("generate"), KV("flatten", <<"2">>)>>),
      OptgenTag(<<Flag("generate"), KV("flatten", <<"3">>)>>),
      OptgenTag(<<Flag("generate"), KV("flatten", <<"1">>), KV("prefix", <<"X">>)>>),
      OptgenTag(<<Flag("generate"), KV("prefix", <<"x","y">>), KV("flatten", <<"2">>)>>),
      OptgenTag(<<Flag("generate"), Flag("private"), Flag("flatten"), KV("prefix", <<"X">>)>>),
      OptgenTag(<<Flag("generate"), Flag("public"), KV("flatten", <<"2">>)>>),
      OptgenTag(<<Flag("generate"), Flag("recursive")>>),
      OptgenTag(<<Flag("generate"), Flag("recursive"), KV("flatten", <<"1">>)>>),
      OptgenTag(<<Flag("skip"), Flag("recursive"), KV("flatten", <<"2">>)>>),
      OptgenTag(<<Flag("readonly"), Flag("flatten")>>) }

\* the field of T under study: exported or not, of type La or *La
FlattenDecls ==
    { Field(<<n>>, t, o, DebugTag("hidden")) :
        n \in {nPort, nId}, t \in {TIdent(nLa), TStar(TIdent(nLa))},
        o \in FlattenTags }

FlattenFlagSets == { << << <<"k","e","y">> >>, p, f>> : p \in BOOLEAN, f \in BOOLEAN }

InitFlat ==
    \E probe \in FlattenDecls :
       \E tFields \in { <<probe>>, <<Companion, probe>> } :
          \E fl \in FlattenFlagSets : InitPkg({DeepFile(tFields)}, {nT}, fl)

SpecFlat == InitFlat /\ [][Next]_vars

\* ------------------------------------------------------------------------
\* Properties of the flattened option functions
\* ------------------------------------------------------------------------

\* a nested field gets a flattened setter: it is exported and its action is
\* generate
Eligible(p) == IsExported(p.name) /\ DirectiveAction(p) = "generate"

\* the name of the struct a field's type denotes: In for In and for *In
NestedTypeName(t) == IF t.kind = "Star" THEN t.elt[1].name ELSE t.name

\* the type is a struct of the file, or a pointer to one
DenotesLocalStruct(t) ==
    \/ t.kind = "Ident" /\ t.name \notin BuiltinNames
    \/ t.kind = "Star" /\ t.elt[1].kind = "Ident" /\ t.elt[1].name \notin BuiltinNames

\* the paths of field names that lead from the struct typeName to a nested
\* field at level 1..levels, through eligible fields only
RECURSIVE PathsBelow(_, _)
PathsBelow(typeName, levels) ==
    IF levels = 0 THEN {}
    ELSE LET pairs == NamePairs(findStructDefInFile(file, typeName).fields)
             elig == { i \in 1..Len(pairs) : Eligible(pairs[i]) }
         IN  { <<pairs[i].name>> : i \in elig }
             \cup UNION { { <<pairs[i].name>> \o q :
                              q \in PathsBelow(NestedTypeName(pairs[i].field.type),
                                               levels - 1) } :
                          i \in { i \in elig : DenotesLocalStruct(pairs[i].field.type) } }

\* the names of a path joined by dots
RECURSIVE Dotted(_)
Dotted(path) ==
    IF Len(path) = 1 THEN path[1] ELSE path[1] \o sDot \o Dotted(Tail(path))

\* the flattened setters written for the field called name
FlattenedFor(name) == { k \in SettersFor(name) : buf[k].variant = "flattened" }

\* the path below the root field a flattened setter assigns to
PathAssigned(k) ==
    SubSeq(buf[k].body[1].target, Len(buf[k].root) + 2, Len(buf[k].body[1].target))

\* the depth N of a directive with one flatten:N pair, N = 1, 2, 3, and no
\* bare flatten flag; 0 otherwise
ExplicitDepth(p) ==
    IF ~p.field.optgen.present \/ HasFlag(p, "flatten") THEN 0
    ELSE IF KV("flatten", <<"1">>) \in { p.field.optgen.parts[j] : j \in 1..Len(p.field.optgen.parts) } THEN 1
    ELSE IF KV("flatten", <<"2">>) \in { p.field.optgen.parts[j] : j \in 1..Len(p.field.optgen.parts) } THEN 2
    ELSE IF KV("flatten", <<"3">>) \in { p.field.optgen.parts[j] : j \in 1..Len(p.field.optgen.parts) } THEN 3
    ELSE 0

\* C13: for a generated field of a local struct type whose directive states
\* flatten:N with N > 0, the flattened setters assign to exactly the eligible
\* nested fields at levels 1 to N below the field, one setter for each, and
\* to no field at level N+1 or deeper; with N = 1 these are the eligible
\* fields of the directly nested type only, also when one of them is itself
\* of a struct type.
C13_FlattenDepthBound ==
    PastWithFuncs =>
        \A i \in 1..Len(TPairs) :
            ( /\ DirectiveAction(TPairs[i]) = "generate"
              /\ DenotesLocalStruct(TPairs[i].field.type)
              /\ ExplicitDepth(TPairs[i]) > 0 )
            => /\ { PathAssigned(k) : k \in FlattenedFor(TPairs[i].name) }
                    = { Dotted(q) :
                          q \in PathsBelow(NestedTypeName(TPairs[i].field.type),
                                           ExplicitDepth(TPairs[i])) }
               /\ \A k1, k2 \in FlattenedFor(TPairs[i].name) :
                    PathAssigned(k1) = PathAssigned(k2) => k1 = k2

\* C13 witness: with flatten:2 the field Port of type La has flattened
\* setters for Mb.Zip and Mb.Mc at level 2 and none for Mb.Mc.Lat at level 3
C13_Witness ==
    /\ PastWithFuncs
    /\ \E i \in 1..Len(TPairs) :
         /\ TPairs[i].name = nPort
         /\ TPairs[i].field.type = TIdent(nLa)
         /\ ExplicitDepth(TPairs[i]) = 2
    /\ Dotted(<<nMb, nMc>>) \in { PathAssigned(k) : k \in FlattenedFor(nPort) }
    /\ Dotted(<<nMb, nMc, nLat>>) \notin { PathAssigned(k) : k \in FlattenedFor(nPort) }

\* the names of a path concatenated
RECURSIVE Joined(_)
Joined(path) == IF Len(path) = 0 THEN <<>> ELSE path[1] \o Joined(Tail(path))

\* the custom prefix of the directive, <<>> when it states none
CustomPrefix(p) ==
    IF HasKey(p, "prefix")
    THEN p.field.optgen.parts[CHOOSE j \in 1..Len(p.field.optgen.parts) :
                                 p.field.optgen.parts[j].key = "prefix"].value
    ELSE <<>>

\* the path of eligible nested fields a flattened setter of the field p
\* assigns to; <<>> when it assigns to no such path
PathOf(p, k) ==
    LET paths == { q \in PathsBelow(NestedTypeName(p.field.type), 4) :
                     Dotted(q) = PathAssigned(k) }
    IN  IF paths = {} THEN <<>> ELSE CHOOSE q \in paths : TRUE

\* With + struct name (prefix mode) + accumulated prefix + nested field name,
\* the accumulated prefix starting as the custom prefix or else the root
\* field's name and growing by every intermediate field's name; cased as every
\* option function's name is (first character of the composite upper-cased,
\* first character of the whole lowered when private)
FlattenedName(p, path) ==
    LET start == IF CustomPrefix(p) = <<>> THEN p.name ELSE CustomPrefix(p)
        composite == start \o Joined(path)
        id == sWith \o (IF prefixFlag THEN nT ELSE <<>>)
                    \o <<ToUpperCh(composite[1])>> \o Tail(composite)
    IN  IF ResolvedPublic(p) THEN id ELSE <<ToLowerCh(id[1])>> \o Tail(id)

\* the setter is for an eligible nested field and has the name of its path
FlattenedNameOk(p, k) ==
    /\ PathOf(p, k) # <<>>
    /\ buf[k].name = FlattenedName(p, PathOf(p, k))

\* the body assigns the parameter through the dotted path of the declared
\* field names, starting with the root field
FlattenedPathOk(p, k) ==
    buf[k].body = << Stmt("assign", p.name \o sDot \o PathAssigned(k)) >>

\* C14, as stated: every flattened setter is for a nested field that is
\* exported and has action generate; it is named With + struct name (prefix
\* mode) + accumulated prefix + nested field name, the accumulated prefix
\* starting as the custom prefix:NAME or else the root field name and growing
\* by the name of each intermediate field; and its body assigns the parameter
\* to the nested field through the full dotted path of field names from the
\* root, whatever the custom prefix.
C14_FlattenedNameAndPath ==
    \A i \in 1..Len(TPairs) :
        \A k \in FlattenedFor(TPairs[i].name) :
            FlattenedNameOk(TPairs[i], k) /\ FlattenedPathOk(TPairs[i], k)

\* ------------------------------------------------------------------------
\* Properties of the Options setter of a nested struct field
\* ------------------------------------------------------------------------

\* the Options setters written so far
OptionsSetters == { k \in 1..Len(buf) : buf[k].kind = "Setter" /\ buf[k].variant = "options" }

\* With<Field>Options, cased as every option function's name is
OptionsName(p) ==
    LET id == sWith \o (IF prefixFlag THEN nT ELSE <<>>)
                    \o <<ToUpperCh(p.name[1])>> \o Tail(p.name) \o sOptions
    IN  IF ResolvedPublic(p) THEN id ELSE <<ToLowerCh(id[1])>> \o Tail(id)

\* the field has exactly one Options setter: it is called With<Field>Options,
\* takes option functions of the nested type, and its body assigns to the
\* field the result of the nested type's constructor of the given kind
OneOptionsSetter(p, constructor) ==
    \E k \in OptionsSetters :
        /\ { j \in OptionsSetters : buf[j].root = p.name } = {k}
        /\ buf[k].name = OptionsName(p)
        /\ buf[k].param = TIdent(NestedTypeName(p.field.type))
        /\ buf[k].body = << Stmt(constructor, p.name) >>

\* the fields of T that are of a local struct type, tagged recursive and
\* generated
RecursiveFields ==
    { i \in 1..Len(TPairs) :
        /\ DirectiveAction(TPairs[i]) = "generate"
        /\ DeclaredKind(TPairs[i].field.type) = "Local"
        /\ HasFlag(TPairs[i], "recursive") }

\* C15, as stated: a generated field of a local struct type tagged recursive
\* has exactly one setter With<Field>Options; it takes option functions of the
\* nested type, forwards them to the nested type's defaulted constructor and
\* assigns the result to the field; and no Options setter is written for the
\* struct fields of the nested type, whatever their tags.
C15_OptionsSetterDefaulted ==
    PastWithFuncs =>
        /\ \A i \in RecursiveFields :
              OneOptionsSetter(TPairs[i], "NewWithOptionsAndDefaults")
        /\ \A k \in OptionsSetters :
              \E i \in 1..Len(TPairs) : buf[k].root = TPairs[i].name

\* ------------------------------------------------------------------------
\* The program that builds instances with the generated options
\* ------------------------------------------------------------------------

\* the longest option list a call is given
MaxOpts == 3

\* the declarations of the output the program can call: those written for
\* the requested struct
SettersOf(out) == { k \in 1..Len(out) : out[k].kind = "Setter" /\ out[k].struct = nT }

\* the output compiles: every setter assigns to a declared field
Builds(out, fields) ==
    /\ \A k \in SettersOf(out) : out[k].body[1].target \in DeclaredNames(fields)
    /\ \A j, k \in SettersOf(out) : out[j].name = out[k].name => j = k

\* the arguments the program passes to a setter: key and value for an
\* add-one-entry setter, one value of the parameter type otherwise
ArgsFor(d, f) ==
    CASE d.variant = "addentry" -> { <<VStr("a"), VInt(1)>>, <<VStr("b"), VInt(2)>> }
      [] d.param.kind = "Ident" /\ d.param.name = sString -> { <<VStr("")>>, <<VStr("b")>> }
      [] OTHER -> { <<ZeroValue(d.param, f)>>, <<FullValue(d.param, f)>> }

\* an option value: the closure returned by the setter out[k] for arguments
OptionValues(out, f) ==
    UNION { { [setter |-> k, args |-> a] : a \in ArgsFor(out[k], f) } : k \in SettersOf(out) }

\* the option lists of at most n options
RECURSIVE OptionLists(_, _)
OptionLists(vals, n) ==
    IF n = 0 THEN { <<>> }
    ELSE { <<>> } \cup { <<v>> \o l : v \in vals, l \in OptionLists(vals, n - 1) }

\* t := &T{}
ZeroInstance(fields, f) ==
    [n \in DeclaredNames(fields) |-> ZeroValue(TypeOfName(fields, n), f)]

\* the value a `default` tag gives a field of the type (strings and slices of
\* strings carry one here)
DefaultValue(t, f) ==
    CASE t.kind = "Ident" /\ t.name = sString -> VStr("d")
      [] t.kind = "Array" -> VSlice(<<VStr("d")>>)
      [] OTHER -> ZeroValue(t, f)

\* defaults.MustSet(t): every field that is still zero gets its default
MustSet(obj, fields, f) ==
    [n \in DOMAIN obj |->
        IF obj[n] = ZeroValue(TypeOfName(fields, n), f)
        THEN DefaultValue(TypeOfName(fields, n), f)
        ELSE obj[n]]

\* the elements of a slice value; a nil slice has none
Elems(x) == IF x = VNil THEN <<>> ELSE x.v

\* one entry stored in a map
MapStore(m, key, value) == [k \in {key} |-> value] @@ m

\* the closure o(t) of a setter body run on the instance obj; writing to a
\* nil map panics
RunOption(stmt, args, obj) ==
    CASE stmt.op = "assign" ->
            [status |-> "ok", obj |-> [obj EXCEPT ![stmt.target] = args[1]]]
      [] stmt.op = "append" ->
            [status |-> "ok",
             obj |-> [obj EXCEPT ![stmt.target] = VSlice(Elems(@) \o <<args[1]>>)]]
      [] stmt.op = "mapset" ->
            IF obj[stmt.target] = VNil THEN [status |-> "panic", obj |-> obj]
            ELSE [status |-> "ok",
                  obj |-> [obj EXCEPT ![stmt.target] =
                                 VMap(MapStore(@.v, args[1].v, args[2]))]]
      [] OTHER -> [status |-> "panic", obj |-> obj]

\* an option list handed over back to front
NextOptionBackwards(opts, applied) == opts[Len(opts) - applied]

\* for _, o := range opts: the option the loop reaches after `applied` others
NextOption(opts, applied) == opts[applied + 1]

\* the generator's variables and the variables of the debug-map program
gen == <<inputs, pc, structs, idx, buf, diag, output>>

dbgrt == <<run, inst, tgt0, tgt, dbg, flat, golden, hcall, walk>>

EntryKinds == {"NewWithOptions", "NewWithOptionsAndDefaults", "XWithOptions", "WithOptions"}

\* the program calls New<T>WithOptions(opts...), New<T>WithOptionsAndDefaults(
\* opts...), <T>WithOptions(t, opts...) or t.WithOptions(opts...): a
\* constructor allocates its instance (t := &T{}), a bulk-apply mutator is
\* given the instance at address 1
CallEntry ==
    /\ pc = "done"
    /\ call = NoCall
    /\ Builds(output, TFields)
    /\ \E kind \in EntryKinds :
         \E opts \in OptionLists(OptionValues(output, file), MaxOpts) :
            \E given \in { ZeroInstance(TFields, file),
                           MustSet(ZeroInstance(TFields, file), TFields, file) } :
               /\ heap' = << VStruct(given),
                             IF kind \in {"NewWithOptions", "NewWithOptionsAndDefaults"}
                             THEN VStruct(ZeroInstance(TFields, file)) ELSE NoObj >>
               /\ call' = [NoCall EXCEPT
                             !.entry = kind, !.opts = opts, !.stmt = 1,
                             !.recv = IF kind \in {"NewWithOptions", "NewWithOptionsAndDefaults"}
                                      THEN 2 ELSE 1,
                             !.status = "ok", !.start = given]
    /\ UNCHANGED <<gen, dbgrt>>

\* the statement of the entry point's body the call is at
CurStmt == BodyOf(call.entry)[call.stmt]

Running == call.status = "ok" /\ call.ret = 0

\* defaults.MustSet(t) in the defaulted constructor
CallMustSet ==
    /\ Running
    /\ CurStmt.op = "MustSet"
    /\ heap' = [heap EXCEPT ![call.recv] = VStruct(MustSet(@.v, TFields, file))]
    /\ call' = [call EXCEPT !.stmt = @ + 1,
                            !.mustSetAt = Append(@, call.applied)]
    /\ UNCHANGED <<gen, dbgrt>>

\* the outcome of one turn of applyOptions' loop
AfterOption(r) ==
    /\ heap' = [heap EXCEPT ![call.recv] = VStruct(r.obj)]
    /\ call' = [call EXCEPT !.applied = @ + 1, !.status = r.status]

\* applyOptions: one turn of the loop, o(t)
ApplyOption ==
    /\ Running
    /\ CurStmt.op = "applyOptions"
    /\ call.applied < Len(call.opts)
    /\ AfterOption(RunOption(output[NextOption(call.opts, call.applied).setter].body[1],
                             NextOption(call.opts, call.applied).args,
                             heap[call.recv].v))
    /\ UNCHANGED <<gen, dbgrt>>

\* applyOptions: return t
ReturnInstance ==
    /\ Running
    /\ CurStmt.op = "applyOptions"
    /\ call.applied = Len(call.opts)
    /\ call' = [call EXCEPT !.ret = call.recv]
    /\ UNCHANGED <<gen, dbgrt, heap>>

\* the field declarations the options are applied for
OptDecls ==
    { Field(<<nPort>>, t, NoTag, DebugTag("visible")) :
        t \in { TIdent(sString), TArray(TIdent(sString), FALSE),
                TMap(TIdent(sString), TIdent(sInt)), TStar(TIdent(sString)) } }

OptFlagSets == { << << <<"k","e","y">> >>, p, FALSE>> : p \in BOOLEAN }

InitOpt ==
    \E probe \in OptDecls :
       \E fl \in OptFlagSets : InitPkg({SourceFile(<<Companion, probe>>)}, {nT}, fl)

NextOpt == Next \/ CallEntry \/ CallMustSet \/ ApplyOption \/ ReturnInstance

SpecOpt == InitOpt /\ [][NextOpt]_vars

\* ------------------------------------------------------------------------
\* Properties of option application
\* ------------------------------------------------------------------------

\* the options applied so far, in argument order
AppliedOpts == SubSeq(call.opts, 1, call.applied)

\* option j of the list is made by a setter of the field n of one of the
\* variants
Targets(opts, j, n, variants) ==
    /\ output[opts[j].setter].root = n
    /\ output[opts[j].setter].variant \in variants

\* the last option of the list that targets the field with such a setter; 0
\* when there is none
LastTargeting(opts, n, variants) ==
    IF \E j \in 1..Len(opts) : Targets(opts, j, n, variants)
    THEN CHOOSE j \in 1..Len(opts) :
            /\ Targets(opts, j, n, variants)
            /\ \A i \in (j + 1)..Len(opts) : ~Targets(opts, i, n, variants)
    ELSE 0

\* the elements appended to the field by the options from position j on
RECURSIVE AppendedFrom(_, _, _)
AppendedFrom(opts, j, n) ==
    IF j > Len(opts) THEN <<>>
    ELSE (IF Targets(opts, j, n, {"append"}) THEN <<opts[j].args[1]>> ELSE <<>>)
         \o AppendedFrom(opts, j + 1, n)

\* what the field holds after the options, starting from the value was: a
\* sequence field the argument of the last replace-all (else was) followed by
\* the elements appended since, any other field the argument of the last
\* option that targets it (else was)
HeldAfter(opts, n, was, last) ==
    IF TypeOfName(TFields, n).kind = "Array"
    THEN IF AppendedFrom(opts, last + 1, n) = <<>>
         THEN (IF last = 0 THEN was ELSE opts[last].args[1])
         ELSE VSlice(Elems(IF last = 0 THEN was ELSE opts[last].args[1])
                     \o AppendedFrom(opts, last + 1, n))
    ELSE IF last = 0 THEN was ELSE opts[last].args[1]

IsConstructor == call.entry \in {"NewWithOptions", "NewWithOptionsAndDefaults"}

\* the instance the options start from: the fresh instance of a constructor,
\* with its defaults once they are populated, or the instance handed over
StartInstance ==
    IF ~IsConstructor THEN call.start
    ELSE IF call.mustSetAt = <<>> THEN ZeroInstance(TFields, file)
    ELSE MustSet(ZeroInstance(TFields, file), TFields, file)

\* C16: while a constructor or bulk-apply mutator runs and after it returns,
\* the options applied so far are a prefix of the argument list applied in
\* order to one instance - the one allocated by the constructor or handed to
\* the mutator - which is the instance returned once all are applied; no
\* other instance changes; every field that is no map holds the argument of
\* the last option targeting it, a sequence field the elements appended in
\* order since the last replace-all; and the defaulted constructor populates
\* the defaults exactly once, before the first option, no other entry point
\* ever.
C16_OptionsInOrderOnOneInstance ==
    call.status = "ok" =>
        /\ call.recv = IF IsConstructor THEN 2 ELSE 1
        /\ heap[3 - call.recv] = IF IsConstructor THEN VStruct(call.start) ELSE NoObj
        /\ call.ret # 0 => call.ret = call.recv /\ call.applied = Len(call.opts)
        /\ \A n \in DeclaredNames(TFields) :
              TypeOfName(TFields, n).kind # "Map"
              => heap[call.recv].v[n] =
                   HeldAfter(AppliedOpts, n, StartInstance[n],
                             LastTargeting(AppliedOpts, n,
                                 IF TypeOfName(TFields, n).kind = "Array"
                                 THEN {"replace"} ELSE {"direct"}))
        /\ call.entry # "NewWithOptionsAndDefaults" => call.mustSetAt = <<>>
        /\ ( call.entry = "NewWithOptionsAndDefaults"
             /\ (call.applied > 0 \/ call.ret # 0) ) => call.mustSetAt = <<0>>
        /\ Len(call.mustSetAt) <= 1

\* C16 witness: the defaulted constructor has returned its instance after a
\* replace-all of Port, an append to Port and an assignment of Host, and Host
\* holds the option's argument instead of the default
C16_Witness ==
    /\ call.entry = "NewWithOptionsAndDefaults"
    /\ call.ret = 2
    /\ Len(call.opts) = 3
    /\ Targets(call.opts, 1, nPort, {"replace"})
    /\ Targets(call.opts, 2, nPort, {"append"})
    /\ Targets(call.opts, 3, nHost, {"direct"})
    /\ heap[2].v[nHost] = VStr("b")
    /\ heap[2].v[nPort] = VSlice(Elems(call.opts[1].args[1]) \o <<call.opts[2].args[1]>>)

\* ------------------------------------------------------------------------
\* The generator on a package of several files and several requested names
\* ------------------------------------------------------------------------

nU  == <<"U">>
nAl == <<"A","l">>
nZz == <<"Z","z">>

\* type U struct { Port int `debugmap:"visible"` }, and type Al string
UFields == << Field(<<nPort>>, TIdent(sInt), NoTag, DebugTag("visible")) >>

FileU == << TypeSpec(nU, TRUE, UFields) >>

FileAl == << TypeSpec(nAl, FALSE, <<>>) >>

\* the package as one file, as two files, and as three files of which one
\* declares no struct
Packages(tFields) ==
    { { SourceFile(tFields) \o FileU \o FileAl },
      { SourceFile(tFields) \o FileAl, FileU },
      { SourceFile(tFields), FileU, FileAl } }

\* the requested names: T and U are structs of the package, Al is a type of
\* the package that is no struct, Zz is not declared
RequestSets == (SUBSET {nT, nU, nAl, nZz}) \ { {} }

\* the field of T: accepted, or rejected with a fatal diagnostic
PkgDecls ==
    { Field(<<nHost>>, TIdent(sString), o, DebugTag("visible")) :
        o \in { NoTag, OptgenTag(<<Flag("bogus")>>) } }

InitMulti ==
    \E probe \in PkgDecls :
       \E files \in Packages(<<probe>>) :
          \E names \in RequestSets :
             \E p \in BOOLEAN :
                InitPkg(files, names, << << <<"k","e","y">> >>, p, FALSE>>)

SpecMulti == InitMulti /\ [][Next]_vars

\* ------------------------------------------------------------------------
\* Properties of a run over a package
\* ------------------------------------------------------------------------

\* the type declarations of the package
PkgTypes == UNION { { f[i] : i \in 1..Len(f) } : f \in pkg }

\* the requested name is declared in the package as a struct
IsStructOfPkg(n) == \E ts \in PkgTypes : ts.name = n /\ ts.isStruct

\* C17, as stated: a run in which a requested name is not declared in the
\* scanned package, or is declared as a type that is no struct, does not end
\* in success: whenever the run has ended without a fatal diagnostic, every
\* requested name is a struct of the package.
C17_MissingStructAborts ==
    pc = "done" => \A n \in structNames : IsStructOfPkg(n)

\* the declarations of the rendered output written for the struct n
OutputKinds(n) ==
    { output[k].kind : k \in { k \in 1..Len(output) : output[k].struct = n } }

\* C18, as stated: after a successful run the output holds, for every
\* requested struct of the package, its option type, both constructors,
\* ToOption, DebugMap, FlatDebugMap, both bulk-apply mutators and its
\* option functions, in whichever files of the package the requested structs
\* are declared.
C18_OutputHasEveryStruct ==
    pc = "done" =>
        \A n \in { n \in structNames : IsStructOfPkg(n) } :
            { "OptionType", "NewWithOptions", "NewWithOptionsAndDefaults",
              "ToOption", "DebugMap", "FlatDebugMap", "XWithOptions",
              "WithOptions", "Setter" } \subseteq OutputKinds(n)

\* ------------------------------------------------------------------------
\* Properties of the debug-map entries of visible fields
\* ------------------------------------------------------------------------

\* the exported fields of T with the debugmap tag, by position in TPairs
TaggedFields(tag) ==
    { i \in 1..Len(TPairs) :
        IsExported(TPairs[i].name) /\ TPairs[i].field.debugmap = DebugTag(tag) }

\* "(empty)" in place of the empty string
EmptyShown(x) == IF x = VStr("") THEN VStr("(empty)") ELSE x

\* the entry of a visible slice or map: "nil", or its size in words
SizeShown(x, words, n) == IF x = VNil THEN VStr("nil") ELSE Sprintf(words, VInt(n))

\* the entry of a visible-format slice: "nil", or its elements in order
ElementsShown(x) ==
    IF x = VNil THEN VStr("nil")
    ELSE DSlice([j \in 1..Len(x.v) |-> EmptyShown(x.v[j])])

\* C19: in the map DebugMap() returns, the entry of a visible or
\* visible-format field of type string is "(empty)" for the empty string and
\* the value itself otherwise; the entry of a visible slice is "nil" when nil
\* and "(slice of size N)" with N its length otherwise, of a visible map "nil"
\* or "(map of size N)"; the entry of a visible-format slice is "nil" when
\* nil and otherwise the list of its elements in order with "(empty)" in
\* place of every empty string.
C19_VisibleEntries ==
    Debugged =>
        /\ \A i \in TaggedFields("visible") \cup TaggedFields("visible-format") :
              TPairs[i].field.type = TIdent(sString)
              => dbg.map[TPairs[i].name] = EmptyShown(inst[TPairs[i].name])
        /\ \A i \in TaggedFields("visible") :
              /\ TPairs[i].field.type.kind = "Array"
                 => dbg.map[TPairs[i].name] =
                      SizeShown(inst[TPairs[i].name], "(slice of size %d)",
                                Len(Elems(inst[TPairs[i].name])))
              /\ TPairs[i].field.type.kind = "Map"
                 => dbg.map[TPairs[i].name] =
                      SizeShown(inst[TPairs[i].name], "(map of size %d)",
                                Cardinality(DOMAIN Elems(inst[TPairs[i].name])))
        /\ \A i \in TaggedFields("visible-format") :
              TPairs[i].field.type.kind = "Array"
              => dbg.map[TPairs[i].name] = ElementsShown(inst[TPairs[i].name])

\* C19 witness: the visible-format slice Port = ["a", ""] is shown as the
\* list "a", "(empty)"
C19_Witness ==
    /\ Debugged
    /\ \E i \in TaggedFields("visible-format") :
          /\ TPairs[i].name = nPort
          /\ TPairs[i].field.type = TArray(TIdent(sString), FALSE)
          /\ inst[nPort] = VSlice(<<VStr("a"), VStr("")>>)
          /\ dbg.map[nPort] = DSlice(<<VStr("a"), VStr("(empty)")>>)

\* two values of the same kind that are equal
SameValue(a, b) == a.t = b.t /\ a = b

\* the visible and visible-format fields of T whose declared type is a pointer
VisiblePointers ==
    { i \in TaggedFields("visible") \cup TaggedFields("visible-format") :
        TPairs[i].field.type.kind = "Star" }

\* C20: when DebugMap() has been called, it has returned a map, and the entry
\* of every visible or visible-format field whose declared type is a pointer
\* (to a built-in type, to a struct of the package or to a struct of another
\* package) is "nil" for a nil pointer and the value pointed to otherwise; no
\* nil pointer is dereferenced and no method is called through one.
C20_PointerEntries ==
    run = "debugged" =>
        \A i \in VisiblePointers :
            /\ dbg.status = "ok"
            /\ TPairs[i].name \in DOMAIN dbg.map
            /\ SameValue(dbg.map[TPairs[i].name],
                         NilOr(inst[TPairs[i].name], Elems(inst[TPairs[i].name])))

\* ------------------------------------------------------------------------
\* Properties of the debug-map entries of struct-typed fields
\* ------------------------------------------------------------------------

\* x.DebugMap() for a value x of the nested struct In
InDebugMap(x) ==
    RunDebugMapCode(DebugMapCode(nIn, file, sensitiveNameMatches), x,
                    findStructDefInFile(file, nIn).fields, file,
                    sensitiveNameMatches)

\* x.FlatDebugMap() for a value x of the nested struct In
InFlatDebugMap(x) == CHOOSE r \in FlattenResults(InDebugMap(x).map) : TRUE

\* the exported fields of T of the declared type t carrying the debugmap tag
TaggedOfType(tag, t) == { i \in TaggedFields(tag) : TPairs[i].field.type = t }

\* the statement generated into DebugMap for the field
DebugStmtOf(name) ==
    { k \in 1..Len(BodyOf("DebugMap")) : BodyOf("DebugMap")[k].target = name }

OnlyEntriesAdded ==
    \A j \in 1..call.applied :
        output[call.opts[j].setter].variant = "addentry"

\* the last applied option that stores under the key of option j
LastStoring(j) ==
    CHOOSE i \in j..call.applied :
        /\ call.opts[i].args[1] = call.opts[j].args[1]
        /\ \A h \in (i + 1)..call.applied :
              call.opts[h].args[1] # call.opts[j].args[1]

\* C22: when New<T>WithOptions has applied one or more options made by the
\* add-one-entry setter With<Field>(k, v) to its fresh instance, whose map
\* field has not been set, no option has failed and the map field holds
\* every entry added, a key added twice holding the value added last.
C22_EntryAddedToUnsetMap ==
    ( /\ call.entry = "NewWithOptions"
      /\ call.applied > 0
      /\ OnlyEntriesAdded )
    => /\ call.status = "ok"
       /\ \A j \in 1..call.applied :
             /\ heap[call.recv].v[output[call.opts[j].setter].root].t = "gomap"
             /\ call.opts[j].args[1].v
                  \in DOMAIN heap[call.recv].v[output[call.opts[j].setter].root].v
             /\ heap[call.recv].v[output[call.opts[j].setter].root].v[call.opts[j].args[1].v]
                  = call.opts[LastStoring(j)].args[2]

\* ------------------------------------------------------------------------
\* The generator on structs whose field names share parts
\* ------------------------------------------------------------------------

nPortNm      == <<"P","o","r","t","N","m">>
nPortOptions == <<"P","o","r","t","O","p","t","i","o","n","s">>
nLowPort     == <<"p","o","r","t">>
nUPort       == <<"U","P","o","r","t">>
nTU          == <<"T","U">>

\* the field declared beside Port in T
SiblingDecls ==
    { Companion,
      Field(<<nPortNm>>, TIdent(sString), NoTag, DebugTag("visible")),
      Field(<<nPortOptions>>, TIdent(sString), NoTag, DebugTag("visible")),
      Field(<<nLowPort>>, TIdent(sString),
            OptgenTag(<<Flag("generate"), Flag("public")>>), NoTag),
      Field(<<nUPort>>, TIdent(sString), NoTag, DebugTag("visible")) }

\* the field Port of T: a string or the struct La, plain, recursive or
\* flattened
SharedDecls ==
    { Field(<<nPort>>, t, o, DebugTag("hidden")) :
        t \in {TIdent(sString), TIdent(nLa)},
        o \in { NoTag,
                OptgenTag(<<Flag("generate"), Flag("flatten")>>),
                OptgenTag(<<Flag("generate"), KV("flatten", <<"1">>)>>),
                OptgenTag(<<Flag("generate"), Flag("recursive")>>),
                OptgenTag(<<Flag("generate"), Flag("private")>>) } }

TUFields == << Field(<<nPort>>, TIdent(sString), NoTag, DebugTag("visible")) >>

\* a file with the structs La > Lb > Lc, the struct TU and the struct T
SharedFile(tFields) ==
    << TypeSpec(nLc, TRUE, LcFields), TypeSpec(nLb, TRUE, LbFields),
       TypeSpec(nLa, TRUE, LaFields), TypeSpec(nTU, TRUE, TUFields),
       TypeSpec(nT, TRUE, tFields) >>

InitShared ==
    \E probe \in SharedDecls :
       \E sibling \in SiblingDecls :
          \E names \in { {nT}, {nT, nTU} } :
             \E fl \in FlattenFlagSets :
                InitPkg({SharedFile(<<probe, sibling>>)}, names, fl)

SpecShared == InitShared /\ [][Next]_vars

\* ------------------------------------------------------------------------
\* Properties of the identifiers in one output
\* ------------------------------------------------------------------------

\* the option functions of the output, of every requested struct
OutputSetters == { k \in 1..Len(output) : output[k].kind = "Setter" }

\* C23: in prefix mode the option functions written to one output have
\* pairwise different identifiers, across the requested structs and within
\* one struct, flattened and Options-suffixed setters included.
C23_DistinctIdentifiers ==
    (pc = "done" /\ prefixFlag)
    => \A j, k \in OutputSetters : j # k => output[j].name # output[k].name

\* ------------------------------------------------------------------------
\* The generator run twice on the same package
\* ------------------------------------------------------------------------

\* the output of a finished run is kept as the golden file and the generator
\* is started again with the same sources, names and flags; the loop over
\* pkg.Files may reach the files in another order
RunAgain ==
    /\ pc = "done"
    /\ golden = <<>>
    /\ golden' = output
    /\ \E f \in pkg : file' = f /\ pending' = pkg \ {f}
    /\ count' = 0
    /\ pc' = "start"
    /\ structs' = <<>>
    /\ idx' = 0
    /\ buf' = <<>>
    /\ UNCHANGED <<pkg, flags, diag, output, run, inst, tgt0, tgt, dbg, flat, heap, call, hcall, walk>>

NextTwice == Next \/ RunAgain

SpecTwice == InitMulti /\ [][NextTwice]_vars

\* C24: a second run over the same package sources with the same requested
\* struct names and the same flags ends with the output of the first run,
\* declaration by declaration.
C24_SameOutputTwice ==
    (pc = "done" /\ golden # <<>>) => output = golden

\* ------------------------------------------------------------------------
\* Package helpers: DebugValue and Flatten
\* ------------------------------------------------------------------------

\* a value of type any: its dynamic type and the value; the nil interface
\* value has no dynamic type
AnyOf(dyn, x) == [dyn |-> dyn, x |-> x]

NilAny == AnyOf(NoType, VNil)

\* what a call has returned, or that it has panicked
Ret(v) == [status |-> "ok", v |-> v]

PanicRet == [status |-> "panic", v |-> <<>>]

\* value.(withDebugMap): the generated DebugMap has a pointer receiver, so
\* the pointer to a struct of the file has the method
ImplementsDebugMap(dyn, f) ==
    /\ dyn.kind = "Star"
    /\ dyn.elt[1].kind = "Ident"
    /\ findStructDefInFile(f, dyn.elt[1].name).found

\* the kinds DebugValue returns unchanged (reflect.String .. reflect.Float64)
ReturnedKinds == PrimitiveNames \cup {sByte, <<"r","u","n","e">>}

\* the elements of a []any after DebugValue was applied to each
AllRet(rs) ==
    IF \E j \in 1..Len(rs) : rs[j].status # "ok" THEN PanicRet
    ELSE Ret(DSlice([j \in 1..Len(rs) |-> rs[j].v]))

\* helpers.DebugValue(value, fmtValue); nested is the result of
\* wdm.DebugMap() when the value has the method
RECURSIVE DebugValue(_, _, _, _)
DebugValue(value, fmtValue, f, sens) ==
    IF value.dyn = NoType THEN Ret(VStr("nil"))
    ELSE IF value.dyn = TIdent(sString) /\ value.x = VStr("") THEN Ret(VStr("(empty)"))
    ELSE IF ImplementsDebugMap(value.dyn, f)
    THEN LET n == EvalNested(value.dyn, value.x, f, sens)
         IN  IF n.status = "ok" THEN Ret(DMap(n.map)) ELSE PanicRet
    ELSE CASE value.dyn.kind = "Map" ->
                IF fmtValue THEN Ret(Sprintf("%v", value.x))
                ELSE Ret(Sprintf("(map of size %d)",
                                 VInt(Cardinality(DOMAIN Elems(value.x)))))
           [] value.dyn.kind = "Array" /\ ~value.dyn.sized ->
                IF value.dyn.elt[1] = TIdent(sAny)
                THEN AllRet([j \in 1..Len(Elems(value.x)) |->
                               DebugValue(Elems(value.x)[j], fmtValue, f, sens)])
                ELSE IF fmtValue THEN Ret(Sprintf("%v", value.x))
                ELSE Ret(Sprintf("(slice of size %d)", VInt(Len(Elems(value.x)))))
           [] value.dyn.kind = "Ident" /\ value.dyn.name \in ReturnedKinds ->
                Ret(value.x)
           [] OTHER ->
                IF fmtValue THEN Ret(Sprintf("%v", value.x))
                ELSE Ret(VStr("(value)"))

\* the orders `for key, value := range m` may take
Orders(m) ==
    { o \in [1..Cardinality(DOMAIN m) -> DOMAIN m] :
        \A i, j \in 1..Cardinality(DOMAIN m) : o[i] = o[j] => i = j }

\* flattened[key+"."+fk] = fv for every entry of the flattened child
MergeChild(flattened, key, child) ==
    [k \in {key \o sDot \o fk : fk \in DOMAIN child} |->
        child[CHOOSE fk \in DOMAIN child : key \o sDot \o fk = k]] @@ flattened

\* helpers.Flatten(debugMap): the maps it can return, one for every order
\* the loops take; FlattenLoop is the loop from position i of the order
RECURSIVE Flatten(_)
RECURSIVE FlattenLoop(_, _, _, _)
FlattenLoop(debugMap, order, i, flattened) ==
    IF i > Len(order) THEN { flattened }
    ELSE IF debugMap[order[i]].t = "dbgmap"
    THEN UNION { FlattenLoop(debugMap, order, i + 1,
                             MergeChild(flattened, order[i], child))
                 : child \in Flatten(debugMap[order[i]].v) }
    ELSE FlattenLoop(debugMap, order, i + 1,
                     (order[i] :> debugMap[order[i]]) @@ flattened)

Flatten(debugMap) ==
    UNION { FlattenLoop(debugMap, o, 1, <<>>) : o \in Orders(debugMap) }

\* the values DebugValue is called with
kA  == <<"a">>
kB  == <<"b">>
kAB == <<"a", ".", "b">>

AnySlices ==
    { VNil, VSlice(<<>>),
      VSlice(<<AnyOf(TIdent(sString), VStr("a")), AnyOf(TIdent(sString), VStr(""))>>),
      VSlice(<<NilAny, AnyOf(TIdent(sInt), VInt(7))>>) }

DebugValueArgs(f) ==
    { NilAny }
    \cup { AnyOf(TIdent(sString), x) : x \in {VStr(""), VStr("a")} }
    \cup { AnyOf(TIdent(sInt), x) : x \in {VInt(0), VInt(7)} }
    \cup { AnyOf(TMap(TIdent(sString), TIdent(sInt)), x) :
             x \in ValuesOf(TMap(TIdent(sString), TIdent(sInt)), f) }
    \cup { AnyOf(TArray(TIdent(sString), FALSE), x) :
             x \in ValuesOf(TArray(TIdent(sString), FALSE), f) }
    \cup { AnyOf(TArray(TIdent(sAny), FALSE), x) : x \in AnySlices }
    \cup { AnyOf(TStar(TIdent(nIn)), x) : x \in ValuesOf(TStar(TIdent(nIn)), f) }
    \cup { AnyOf(TIdent(nIn), x) : x \in ValuesOf(TIdent(nIn), f) }
    \cup { AnyOf(TStar(TIdent(sString)), x) : x \in ValuesOf(TStar(TIdent(sString)), f) }

\* the maps Flatten is called with: up to three levels, with and without two
\* paths that join to the same key
Leaves == { VInt(1), VInt(2) }

InnerMaps == UNION { [ks -> Leaves] : ks \in SUBSET {kB} }

OuterMaps ==
    UNION { [ks -> Leaves \cup { DMap(m) : m \in InnerMaps }] : ks \in SUBSET {kA, kAB} }

DeepMaps ==
    { (kA :> DMap(o)) @@ r : o \in { m \in OuterMaps : DOMAIN m = {kA, kAB} },
                             r \in { <<>>, (kB :> VInt(1)) } }

FlattenArgs == OuterMaps \cup DeepMaps

\* the program calls helpers.DebugValue
CallDebugValue ==
    /\ pc = "done"
    /\ run = "idle"
    /\ hcall.fn = "none"
    /\ \E value \in DebugValueArgs(file), fmtValue \in BOOLEAN :
         hcall' = [NoHCall EXCEPT
                     !.fn = "DebugValue", !.arg = value, !.fmtValue = fmtValue,
                     !.ret = DebugValue(value, fmtValue, file, sensitiveNameMatches)]
    /\ UNCHANGED <<gen, run, inst, tgt0, tgt, dbg, flat, heap, call, golden, walk>>

\* the program calls helpers.Flatten
CallFlatten ==
    /\ pc = "done"
    /\ run = "idle"
    /\ hcall.fn = "none"
    /\ \E debugMap \in FlattenArgs :
         \E r \in Flatten(debugMap) :
            hcall' = [NoHCall EXCEPT !.fn = "Flatten", !.arg = debugMap, !.ret = Ret(r)]
    /\ UNCHANGED <<gen, run, inst, tgt0, tgt, dbg, flat, heap, call, golden, walk>>

\* the program calls helpers.Flatten on the same map once more
CallFlattenAgain ==
    /\ hcall.fn = "Flatten"
    /\ hcall.again.status = "none"
    /\ hcall.closure.status = "none"
    /\ \E r \in Flatten(hcall.arg) : hcall' = [hcall EXCEPT !.again = Ret(r)]
    /\ UNCHANGED <<gen, run, inst, tgt0, tgt, dbg, flat, heap, call, golden, walk>>

\* the closure flatten of a generated FlatDebugMap applied to the same map
CallFlattenClosure ==
    /\ hcall.fn = "Flatten"
    /\ hcall.again.status = "none"
    /\ hcall.closure.status = "none"
    /\ \E r \in FlattenResults(hcall.arg) : hcall' = [hcall EXCEPT !.closure = Ret(r)]
    /\ UNCHANGED <<gen, run, inst, tgt0, tgt, dbg, flat, heap, call, golden, walk>>

\* the struct under study when the helpers are called: Host beside a field
\* of type In shown nested or dot-merged
HelperDecls ==
    { Field(<<nPort>>, TIdent(nIn), NoTag, DebugTag(v)) :
        v \in {"visible", "visible-format"} }

InitHelpers ==
    \E probe \in HelperDecls :
       InitPkg({SourceFile(<<Companion, probe>>)}, {nT}, << << <<"k","e","y">> >>, FALSE, FALSE>>)

NextHelpers ==
    \/ Next
    \/ NewInstance
    \/ CallDebugMap
    \/ CallDebugValue
    \/ CallFlatten
    \/ CallFlattenAgain
    \/ CallFlattenClosure

SpecHelpers == InitHelpers /\ [][NextHelpers]_vars

\* ------------------------------------------------------------------------
\* Properties of helpers.DebugValue
\* ------------------------------------------------------------------------

\* DebugValue was called with fmtValue = false on a value of such a type
SizesAsked(kind) ==
    /\ hcall.fn = "DebugValue"
    /\ ~hcall.fmtValue
    /\ hcall.arg.dyn.kind = kind

\* the call has returned the value
Returned(v) == hcall.ret.status = "ok" /\ SameValue(hcall.ret.v, v)

\* C25: helpers.DebugValue(value, false) returns "(map of size N)" for every
\* non-nil map and "(slice of size N)" for every slice, N being the length,
\* a slice of element type any included; it returns "nil" for the nil value,
\* "(empty)" for the empty string, a string or number unchanged and the
\* DebugMap() of a non-nil value that has the method.
C25_DebugValueSizes ==
    /\ (SizesAsked("Map") /\ hcall.arg.x.t # "nil")
       => Returned(Sprintf("(map of size %d)",
                           VInt(Cardinality(DOMAIN hcall.arg.x.v))))
    /\ SizesAsked("Array")
       => Returned(Sprintf("(slice of size %d)", VInt(Len(Elems(hcall.arg.x)))))
    /\ SizesAsked("None") => Returned(VStr("nil"))
    /\ (SizesAsked("Ident") /\ hcall.arg.dyn.name \in {sString, sInt})
       => Returned(EmptyShown(hcall.arg.x))
    /\ (SizesAsked("Star") /\ hcall.arg.dyn.elt[1] = TIdent(nIn)
                           /\ hcall.arg.x.t # "nil")
       => Returned(DMap(InDebugMap(hcall.arg.x).map))

\* ------------------------------------------------------------------------
\* writeAllWithOptFuncsAST and writeFlattenedOptFuncsAST call by call
\* ------------------------------------------------------------------------

\* the deepest stack of calls of writeFlattenedOptFuncsAST that is followed
MaxWalkDepth == 5

\* the depth check of writeFlattenedOptFuncsAST answers like a visited-type
\* guard: nothing is entered below the first level
DepthLimitAtFirst(currentDepth, maxDepth) == currentDepth > 1

\* the depth check at the head of writeFlattenedOptFuncsAST
DepthLimitReached(currentDepth, maxDepth) == maxDepth > 0 /\ currentDepth > maxDepth

\* a call writeFlattenedOptFuncsAST(buf, parentFieldName, fieldTypeAST, file,
\* c, resolver, prefix, currentDepth, maxDepth, makePublic); pos is 0 before
\* the function's checks and then the position of its loop over
\* nestedStruct's fields
Frame(root, parentFieldName, fieldType, prefix, currentDepth, maxDepth, makePublic) ==
    [root |-> root, parent |-> parentFieldName, type |-> fieldType,
     prefix |-> prefix, depth |-> currentDepth, maxDepth |-> maxDepth,
     makePublic |-> makePublic, pos |-> 0, nestedStruct |-> <<>>]

\* the innermost call and the (field, name) pairs its loop runs over
TopFrame == walk.stack[Len(walk.stack)]

NestedPairs(fr) ==
    NamePairs(findStructDefInFile(file, getStructTypeName(fr.type)).fields)

\* the stack with the innermost call past its checks, at the head of its loop
Entered ==
    [walk.stack EXCEPT ![Len(walk.stack)] =
        [TopFrame EXCEPT !.pos = 1, !.nestedStruct = NestedPairs(TopFrame)]]

\* the stack with the innermost call at the next position of its loop
Advanced == [walk.stack EXCEPT ![Len(walk.stack)].pos = @ + 1]

\* the stack after the innermost call has returned
Popped == SubSeq(walk.stack, 1, Len(walk.stack) - 1)

\* the flattened traversal is asked for the field
FlattenAsked(tagInfo, field, c) ==
    /\ tagInfo.fatal = NoDiag
    /\ tagInfo.info.Action \notin {"skip", "readonly"}
    /\ IsLocalStruct(isStructTypeAST(field.type))
    /\ (tagInfo.info.Flatten \/ c.UseFlatten)

\* the direct and the Options-suffixed setter of a same-package struct field
StructHeadSetters(info, makePublic, field, fieldName, c) ==
    <<writeSetterOptAST(sWith, "direct", fieldName, field.type, c, makePublic)>>
    \o (IF info.Recursive
        THEN writeStructRecursiveSetterAST(fieldName, field.type, c, makePublic)
        ELSE <<>>)

\* writeAllWithOptFuncsAST: the loop body for one field; for a field to
\* flatten it writes the field's own setters and calls
\* writeFlattenedOptFuncsAST
WalkFieldOf(p, tagInfo, c) ==
    IF FlattenAsked(tagInfo, p.field, c)
    THEN /\ buf' = buf \o StructHeadSetters(tagInfo.info,
                           MakePublic(tagInfo.info, IsExported(p.name)),
                           p.field, p.name, c)
         /\ walk' = [stack |-> << Frame(p.name, p.name, p.field.type,
                                        IF tagInfo.info.FlattenPrefix = <<>>
                                        THEN p.name ELSE tagInfo.info.FlattenPrefix,
                                        1, tagInfo.info.FlattenDepth,
                                        MakePublic(tagInfo.info, IsExported(p.name))) >>,
                     next |-> walk.next + 1]
         /\ UNCHANGED <<pc, diag>>
    ELSE /\ Step(FieldOptFuncs(p.field, p.name, file, c), pc)
         /\ walk' = [walk EXCEPT !.next = @ + 1]

WalkField ==
    /\ pc = "withfuncs"
    /\ walk.stack = <<>>
    /\ walk.next <= Len(NamePairs(CurStruct.fields))
    /\ WalkFieldOf(NamePairs(CurStruct.fields)[walk.next],
                   parseOptgenTag(NamePairs(CurStruct.fields)[walk.next].field),
                   CurConfig)
    /\ UNCHANGED <<inputs, structs, idx, output, run, inst, tgt0, tgt, dbg, flat,
                   heap, call, golden, hcall>>

\* writeFlattenedOptFuncsAST: the checks before the loop
WalkEnter ==
    /\ pc = "withfuncs"
    /\ walk.stack # <<>>
    /\ TopFrame.pos = 0
    /\ IF \/ DepthLimitReached(TopFrame.depth, TopFrame.maxDepth)
          \/ getStructTypeName(TopFrame.type) = <<>>
          \/ ~findStructDefInFile(file, getStructTypeName(TopFrame.type)).found
       THEN walk' = [walk EXCEPT !.stack = Popped]
       ELSE walk' = [walk EXCEPT !.stack = Entered]
    /\ UNCHANGED <<gen, run, inst, tgt0, tgt, dbg, flat, heap, call, golden, hcall>>

\* the setter written for the nested field p by the call fr
FlattenedSetter(fr, p, c) ==
    Setter(formatFunctionName(sWith, toTitle(fr.prefix) \o toTitle(p.name),
                              ConfigPrefix(c), fr.makePublic),
           c, "flattened", fr.root, "assign",
           toTitle(fr.parent) \o sDot \o toTitle(p.name), p.field.type)

\* writeFlattenedOptFuncsAST: the loop body for one nested field; a nested
\* field of a same-package struct type is entered by a call of its own
WalkNestedOf(fr, p, tagInfo, c) ==
    IF ~IsExported(p.name)
    THEN walk' = [walk EXCEPT !.stack = Advanced] /\ UNCHANGED <<pc, diag, buf>>
    ELSE IF tagInfo.fatal # NoDiag
    THEN pc' = "fatal" /\ diag' = tagInfo.fatal /\ UNCHANGED <<buf, walk>>
    ELSE IF tagInfo.info.Action \in {"skip", "readonly"}
    THEN walk' = [walk EXCEPT !.stack = Advanced] /\ UNCHANGED <<pc, diag, buf>>
    ELSE /\ buf' = Append(buf, FlattenedSetter(fr, p, c))
         /\ UNCHANGED <<pc, diag>>
         /\ IF IsLocalStruct(isStructTypeAST(p.field.type))
            THEN /\ Len(walk.stack) < MaxWalkDepth
                 /\ walk' = [walk EXCEPT !.stack =
                               Append(Advanced,
                                      Frame(fr.root, fr.parent \o sDot \o p.name,
                                            p.field.type,
                                            toTitle(fr.prefix) \o toTitle(p.name),
                                            fr.depth + 1, fr.maxDepth,
                                            fr.makePublic))]
            ELSE walk' = [walk EXCEPT !.stack = Advanced]

WalkNested ==
    /\ pc = "withfuncs"
    /\ walk.stack # <<>>
    /\ TopFrame.pos >= 1
    /\ TopFrame.pos <= Len(TopFrame.nestedStruct)
    /\ WalkNestedOf(TopFrame, TopFrame.nestedStruct[TopFrame.pos],
                    parseOptgenTag(TopFrame.nestedStruct[TopFrame.pos].field),
                    CurConfig)
    /\ UNCHANGED <<inputs, structs, idx, output, run, inst, tgt0, tgt, dbg, flat,
                   heap, call, golden, hcall>>

\* writeFlattenedOptFuncsAST returns after the last nested field
WalkReturn ==
    /\ pc = "withfuncs"
    /\ walk.stack # <<>>
    /\ TopFrame.pos >= 1
    /\ TopFrame.pos > Len(TopFrame.nestedStruct)
    /\ walk' = [walk EXCEPT !.stack = Popped]
    /\ UNCHANGED <<gen, run, inst, tgt0, tgt, dbg, flat, heap, call, golden, hcall>>

\* writeAllWithOptFuncsAST returns after the last field
WalkDone ==
    /\ pc = "withfuncs"
    /\ walk.stack = <<>>
    /\ walk.next > Len(NamePairs(CurStruct.fields))
    /\ pc' = IF idx < Len(structs) THEN "type" ELSE "render"
    /\ idx' = IF idx < Len(structs) THEN idx + 1 ELSE idx
    /\ walk' = NoWalk
    /\ UNCHANGED <<inputs, structs, buf, diag, output, run, inst, tgt0, tgt, dbg,
                   flat, heap, call, golden, hcall>>

\* structs that reach themselves: Nd through its pointer field Nx, Ma and Mz
\* through each other
nNd  == <<"N","d">>
nNx  == <<"N","x">>
nVal == <<"V","a","l">>
nMa  == <<"M","a">>
nMz  == <<"M","z">>
nFw  == <<"F","w">>
nBk  == <<"B","k">>

NdFields ==
    << Field(<<nVal>>, TIdent(sString), NoTag, DebugTag("visible")),
       Field(<<nNx>>, TStar(TIdent(nNd)), NoTag, DebugTag("hidden")) >>

MaFields == << Field(<<nFw>>, TStar(TIdent(nMz)), NoTag, DebugTag("hidden")) >>

MzFields ==
    << Field(<<nBk>>, TStar(TIdent(nMa)), OptgenTag(<<Flag("generate")>>), DebugTag("hidden")),
       Field(<<nVal>>, TIdent(sInt), NoTag, DebugTag("visible")) >>

\* a file with the structs La > Lb > Lc, the structs Nd, Ma and Mz and the
\* requested struct T
CyclicFile(tFields) ==
    << TypeSpec(nLc, TRUE, LcFields), TypeSpec(nLb, TRUE, LbFields),
       TypeSpec(nLa, TRUE, LaFields), TypeSpec(nNd, TRUE, NdFields),
       TypeSpec(nMa, TRUE, MaFields), TypeSpec(nMz, TRUE, MzFields),
       TypeSpec(nT, TRUE, tFields) >>

WalkTags ==
    { NoTag,
      OptgenTag(<<Flag("generate")>>),
      OptgenTag(<<Flag("generate"), Flag("flatten")>>),
      OptgenTag(<<Flag("generate"), KV("flatten", <<"0">>)>>),
      OptgenTag(<<Flag("generate"), KV("flatten", <<"1">>)>>),
      OptgenTag(<<Flag("generate"), KV("flatten", <<"2">>)>>),
      OptgenTag(<<Flag("generate"), KV("flatten", <<"3">>)>>),
      OptgenTag(<<Flag("generate"), Flag("recursive"), KV("flatten", <<"1">>)>>),
      OptgenTag(<<Flag("skip"), Flag("flatten")>>),
      OptgenTag(<<Flag("generate"), KV("flatten", <<"x">>)>>) }

WalkDecls ==
    { Field(<<nPort>>, t, o, DebugTag("hidden")) :
        t \in { TIdent(nLa), TIdent(nNd), TStar(TIdent(nNd)), TIdent(nMa),
                TIdent(sString) },
        o \in WalkTags }

InitWalk ==
    \E probe \in WalkDecls :
       \E tFields \in { <<probe>>, <<Companion, probe>>, <<probe, Companion>> } :
          \E fl \in { << << <<"k","e","y">> >>, FALSE, f>> : f \in BOOLEAN } :
             InitPkg({CyclicFile(tFields)}, {nT}, fl)

NextWalk ==
    \/ Scan
    \/ WriteTypeAndConstructors
    \/ WriteToOption
    \/ WriteDebugMap
    \/ WriteBulkApply
    \/ WalkField
    \/ WalkEnter
    \/ WalkNested
    \/ WalkReturn
    \/ WalkDone
    \/ Render

\* the generator keeps running while it can take a step
SpecWalk == InitWalk /\ [][NextWalk]_vars /\ WF_vars(NextWalk)

\* the struct types that writeFlattenedOptFuncsAST enters from the struct
\* typeName: the types of its exported fields that are flattened and are of
\* a same-package struct type, pointers to one included
EnteredBy(pairs) ==
    { getStructTypeName(pairs[i].field.type) :
        i \in { j \in DOMAIN pairs :
                  /\ IsExported(pairs[j].name)
                  /\ parseOptgenTag(pairs[j].field).fatal = NoDiag
                  /\ parseOptgenTag(pairs[j].field).info.Action \notin {"skip", "readonly"}
                  /\ IsLocalStruct(isStructTypeAST(pairs[j].field.type)) } }

EnteredFrom(f, typeName) ==
    IF ~findStructDefInFile(f, typeName).found THEN {}
    ELSE EnteredBy(NamePairs(findStructDefInFile(f, typeName).fields))

\* the struct types entered from the types names, step by step until no
\* new type is entered
RECURSIVE ReachedFrom(_, _, _)
ReachedFrom(f, names, entered) ==
    IF entered \subseteq names THEN names
    ELSE ReachedFrom(f, names \cup entered,
                     UNION { EnteredFrom(f, n) : n \in entered \ names })

\* a struct type that reaches itself is entered from the struct typeName
ReachesCycle(f, typeName) ==
    \E m \in ReachedFrom(f, {}, {typeName}) :
       m \in ReachedFrom(f, {}, EnteredFrom(f, m))

\* a traversal is under way and was started with flattenDepth = 0 on a type
\* from which a cycle is entered
UnlimitedOnCycle ==
    /\ walk.stack # <<>>
    /\ walk.stack[1].maxDepth = 0
    /\ ReachesCycle(file, getStructTypeName(walk.stack[1].type))

\* a traversal is under way and was started with a positive flattenDepth
LimitedWalk == walk.stack # <<>> /\ walk.stack[1].maxDepth > 0

\* the traversal has returned to writeAllWithOptFuncsAST, or the run has ended
WalkOver == walk.stack = <<>> \/ pc = "fatal"

C26_WitnessLimited ==
    /\ LimitedWalk
    /\ ReachesCycle(file, getStructTypeName(walk.stack[1].type))
    /\ TopFrame.pos = 0
    /\ DepthLimitReached(TopFrame.depth, TopFrame.maxDepth)

\* ------------------------------------------------------------------------
\* FlatDebugMap against DebugMap
\* ------------------------------------------------------------------------

\* the paths of keys that lead to a value of the nested map m that is not
\* itself a map
RECURSIVE LeafPaths(_)
LeafPaths(m) ==
    UNION { IF m[k].t = "dbgmap"
            THEN { <<k>> \o q : q \in LeafPaths(m[k].v) }
            ELSE { <<k>> }
          : k \in DOMAIN m }

\* the value the path leads to
RECURSIVE ValueAt(_, _)
ValueAt(m, path) ==
    IF Len(path) = 1 THEN m[path[1]] ELSE ValueAt(m[path[1]].v, Tail(path))

\* no two paths of m join to the same dotted key
NoJoin(m) ==
    \A p, q \in LeafPaths(m) : Dotted(p) = Dotted(q) => p = q

\* f is the dot-flattening of the nested map m
IsDotFlattening(m, f) ==
    /\ DOMAIN f = { Dotted(p) : p \in LeafPaths(m) }
    /\ \A p \in LeafPaths(m) : SameValue(f[Dotted(p)], ValueAt(m, p))
    /\ \A k \in DOMAIN f : f[k].t # "dbgmap"

\* two flattened maps with the same keys and values
SameFlatMap(f, g) ==
    /\ DOMAIN f = DOMAIN g
    /\ \A k \in DOMAIN f : SameValue(f[k], g[k])

FrameStructs ==
    { <<Companion, Field(<<nPort>>, t, NoTag, DebugTag("visible"))>> :
        t \in { TIdent(sString), TArray(TIdent(sString), FALSE) } }
    \cup
    { << IF beside = "Host" THEN Companion
         ELSE Field(<<nPort>>, t, NoTag, DebugTag("visible")),
         Field(<<nLowPort>>, t, OptgenTag(<<Flag("generate"), Flag(v)>>),
               DebugTag("visible")) >> :
        t \in { TIdent(sString), TArray(TIdent(sString), FALSE) },
        beside \in { "Host", "Port" },
        v \in { "public", "private" } }

InitFrame ==
    \E tFields \in FrameStructs :
       InitPkg({SourceFile(tFields)}, {nT}, << << <<"k","e","y">> >>, FALSE, FALSE>>)

SpecFrame == InitFrame /\ [][NextOpt]_vars

\* the setter out[k] assigns its whole argument to one field: a
\* direct-assignment or a replace-all setter
AssignsWhole(out, k) == out[k].kind = "Setter" /\ out[k].variant \in {"direct", "replace"}

\* the option the loop of applyOptions runs next
NextApplied == NextOption(call.opts, call.applied)

\* C28: the identifier a direct-assignment or replace-all setter assigns to
\* is the name of its field as the struct declares it, and applying the
\* option sets that field of the target to the argument and leaves every
\* other field as it was.
C28_SetterSetsItsField ==
    /\ [](pc = "done" =>
            \A k \in SettersOf(output) :
               AssignsWhole(output, k) => output[k].body[1].target = output[k].root)
    /\ [][ ( /\ Running
             /\ call'.applied = call.applied + 1
             /\ AssignsWhole(output, NextApplied.setter) )
           => /\ call'.status = "ok"
              /\ output[NextApplied.setter].root \in DOMAIN heap[call.recv].v
              /\ \A n \in DOMAIN heap[call.recv].v :
                    SameValue(heap'[call.recv].v[n],
                              IF n = output[NextApplied.setter].root
                              THEN NextApplied.args[1]
                              ELSE heap[call.recv].v[n]) ]_vars

\* ------------------------------------------------------------------------
\* The output file of an earlier run
\* ------------------------------------------------------------------------

\* what the output file holds when the run starts: nothing, or the
\* declarations an earlier run has left there
PriorOutputs ==
    { <<>>,
      << Decl("OptionType", nT \o sOption, [StructName |-> nT], <<>>),
         Decl("WithOptions", sWith \o sOptions, [StructName |-> nT], <<>>) >> }

\* the package of Packages, and as one file that declares U before T
StalePackages(tFields) ==
    Packages(tFields) \cup { { FileU \o SourceFile(tFields) } }

\* the field of T: accepted, rejected for its optgen tag, or rejected as a
\* visible field with a sensitive name
StaleDecls ==
    PkgDecls \cup { Field(<<nKey>>, TIdent(sString), NoTag, DebugTag("visible")) }

InitStale ==
    \E probe \in StaleDecls :
       \E files \in StalePackages(<<probe>>) :
          \E names \in RequestSets :
             \E prior \in PriorOutputs :
                InitPkgOver(files, names, << << <<"k","e","y">> >>, FALSE, FALSE>>, prior)

SpecStale == InitStale /\ [][Next]_vars

\* C29: the output file changes only in the step that renders a file, taken
\* after the last requested struct of the file has been synthesized; until
\* the first file is rendered, and so after a fatal diagnostic raised while
\* the first processed file is synthesized, the output file holds what it
\* held before the run.
C29_OutputKeptUntilRendered ==
    /\ [](count = 0 => output = golden)
    /\ [][output' # output => (pc = "render" /\ idx = Len(structs))]_vars

\* a run over an output file of an earlier run has ended with a fatal
\* diagnostic while it synthesized the second struct of its first file
C29_Witness ==
    /\ pc = "fatal"
    /\ count = 0
    /\ idx = 2
    /\ buf # <<>>
    /\ golden # <<>>
    /\ output = golden

\* ------------------------------------------------------------------------
\* Flattening a map in which two paths join
\* ------------------------------------------------------------------------

\* C30: flattening is a function of the nested map: helpers.Flatten called
\* twice on the same map returns the same flattened map, also when two
\* paths of the map join to the same dotted key, and the generated closure
\* returns that map too.
C30_FlattenIsAFunction ==
    hcall.fn = "Flatten" =>
       /\ hcall.again.status # "none" => SameFlatMap(hcall.again.v, hcall.ret.v)
       /\ hcall.closure.status # "none" => SameFlatMap(hcall.closure.v, hcall.ret.v)

====
